---------------------------- MODULE Spec2Model ----------------------------
(***************************************************************************)
(* A model of the resume-tailor core: the tolerant structured parser       *)
(* (parse_json_response), the platform identifier extraction               *)
(* (_extract_linkedin_job_id), the extractor chain (scrape_job_url), the   *)
(* renderer (render_resume_html), generate_pdf and the tailoring run of    *)
(* main in src/app.py, the company-website scrape (_scrape_website) of     *)
(* src/competitor_intel.py, and the provider configuration, get_ai_client  *)
(* and _web_search of src/ai_utils.py.                                     *)
(*                                                                         *)
(* Texts that the code inspects character by character (model responses,   *)
(* URLs) are sequences of one-character strings.  Texts of which the code  *)
(* only measures the length and strips the surrounding whitespace (page    *)
(* content) are records of character counts.                               *)
(***************************************************************************)
EXTENDS Integers, Sequences, FiniteSets, TLC

VARIABLES
    text,       \* parser: the model response handed to parse_json_response
    ppc,        \* parser: "start" before the call, "done" after it
    presult,    \* parser: the value parse_json_response returned
    url,        \* the URL given to _extract_linkedin_job_id / scrape_job_url
    pc,         \* position inside scrape_job_url (or "idle" / "id_done")
    jid,        \* the identifier _extract_linkedin_job_id returned
    result,     \* the value scrape_job_url returned (None until it returns)
    tried,      \* the strategies scrape_job_url has run, in order
    gets,       \* the HTTP GETs scrape_job_url has issued, in order
    api,        \* the platform API's response
    page,       \* the response to the GET of the URL itself
    cache,      \* the cache mirror's response
    company_url,                \* battle card: the competitor URL typed in
    your_company_url,           \* battle card: the user's company URL
    spc,                        \* battle card: position in main's run
    site_gets,                  \* battle card: the GETs issued and their outcomes
    competitor_website_text,    \* battle card: what _scrape_website returned
    your_website_text,          \* battle card: what _scrape_website returned
    prompt,                     \* battle card: the website texts put in the prompt
    rpc,        \* renderer: position in the tailoring run
    source,     \* renderer: the section headings of the source resume
    tailored,   \* renderer: the value handed to render_resume_html
    html_with_highlights,   \* renderer: render_resume_html(tailored, True)
    html_clean,             \* renderer: render_resume_html(tailored, False)
    env,            \* client: os.environ, the variables the code reads
    pconfig,        \* client: the PROVIDER_CONFIG key whose entry the UI shows
    selected_model, \* client: the model the selector starts with
    client,         \* client: what get_ai_client returned
    cpc,            \* client: position in main's run
    ddgs,           \* search: how the search service answers each query
    queries,        \* search: the queries handed to _web_search
    qi,             \* search: the query the loop is at
    all_results,    \* search: the entries collected so far
    web_results,    \* search: the string _web_search returned
    wpc,            \* search: position inside _web_search
    jd_inputs,      \* run: the index of each job description entered
    idx,            \* run: the job the loop is at
    jd_analysis,    \* run: what analyze_job_description returned
    company_intel,  \* run: what research_company returned
    match_notes,    \* run: what was popped from the tailored resume
    pdf,            \* run: the last call of generate_pdf and its outcome
    results,        \* run: the results list of main
    session,        \* run: st.session_state["results"]
    steps,          \* run: the steps begun so far, in order
    errors,         \* run: the jobs reported with st.error
    runpc           \* run: position in the loop over jobs

parserVars == <<text, ppc, presult>>
scrapeVars == <<url, pc, jid, result, tried, gets, api, page, cache>>
siteVars == <<company_url, your_company_url, spc, site_gets,
              competitor_website_text, your_website_text, prompt>>
renderVars == <<rpc, source, tailored, html_with_highlights, html_clean>>

clientVars == <<env, pconfig, selected_model, client, cpc>>

coreVars == <<parserVars, scrapeVars, siteVars, renderVars>>
searchVars == <<ddgs, queries, qi, all_results, web_results, wpc>>
runVars == <<jd_inputs, idx, jd_analysis, company_intel, match_notes, pdf,
             results, session, steps, errors, runpc>>
auxVars == <<clientVars, searchVars, runVars>>

vars == <<coreVars, auxVars>>

-----------------------------------------------------------------------------
(* Character sequences *)

QUOTE == "\""
NL == "\n"
\* the backtick character (the module's lexer admits none inside a string)
BT == "BT"

\* str.strip() and the regex class \s, over the characters the model uses
Whitespace == {" ", NL}

Digits == {"0", "1", "2", "3", "4", "5", "6", "7", "8", "9"}

DigitVal(c) ==
    CASE c = "0" -> 0 [] c = "1" -> 1 [] c = "2" -> 2 [] c = "3" -> 3
      [] c = "4" -> 4 [] c = "5" -> 5 [] c = "6" -> 6 [] c = "7" -> 7
      [] c = "8" -> 8 [] c = "9" -> 9

\* s[a..b], empty when b < a
Sub(s, a, b) == IF b < a THEN <<>> ELSE SubSeq(s, a, b)

\* the literal lit stands in s at position i
MatchAt(s, i, lit) ==
    /\ i >= 1
    /\ i + Len(lit) - 1 <= Len(s)
    /\ \A k \in 1..Len(lit) : s[i + k - 1] = lit[k]

\* the least position >= i where lit stands, 0 when there is none
Find(s, i, lit) ==
    LET M == {j \in i..Len(s) : MatchAt(s, j, lit)}
    IN  IF M = {} THEN 0 ELSE CHOOSE j \in M : \A k \in M : j <= k

\* the greatest position <= i where lit stands, 0 when there is none
FindLast(s, i, lit) ==
    LET M == {j \in 1..i : MatchAt(s, j, lit)}
    IN  IF M = {} THEN 0 ELSE CHOOSE j \in M : \A k \in M : j >= k

Contains(s, lit) == Find(s, 1, lit) # 0

\* the least position >= i that holds no whitespace (Len(s)+1 when none)
RECURSIVE SkipWs(_, _)
SkipWs(s, i) ==
    IF i <= Len(s) /\ s[i] \in Whitespace THEN SkipWs(s, i + 1) ELSE i

\* the greatest position <= i that holds no whitespace (0 when none)
RECURSIVE SkipWsBack(_, _)
SkipWsBack(s, i) ==
    IF i >= 1 /\ s[i] \in Whitespace THEN SkipWsBack(s, i - 1) ELSE i

\* str.strip()
Strip(s) == Sub(s, SkipWs(s, 1), SkipWsBack(s, Len(s)))

\* the position after the run of digits that starts at i
RECURSIVE SkipDigits(_, _)
SkipDigits(s, i) ==
    IF i <= Len(s) /\ s[i] \in Digits THEN SkipDigits(s, i + 1) ELSE i

-----------------------------------------------------------------------------
(* json.loads: the values and the strict decoder *)

\* One shape for every JSON value: t is its Python type.
MkVal(t, n, s, keys, items) ==
    [t |-> t, n |-> n, s |-> s, keys |-> keys, items |-> items]

JNull == MkVal("NoneType", 0, <<>>, <<>>, <<>>)
JBool(b) == MkVal("bool", IF b THEN 1 ELSE 0, <<>>, <<>>, <<>>)
JNum(n) == MkVal("int", n, <<>>, <<>>, <<>>)
JStr(s) == MkVal("str", 0, s, <<>>, <<>>)
JList(items) == MkVal("list", 0, <<>>, <<>>, items)
JDict(keys, items) == MkVal("dict", 0, <<>>, keys, items)

EmptyDict == JDict(<<>>, <<>>)

IsDict(v) == v.t = "dict"

Ok(val, pos) == [ok |-> TRUE, val |-> val, pos |-> pos]
Fail == [ok |-> FALSE, val |-> JNull, pos |-> 0]

\* a Python dict store: a repeated key keeps its place and takes the new value
DictPut(d, k, v) ==
    IF \E i \in 1..Len(d.keys) : d.keys[i] = k
    THEN LET i == CHOOSE j \in 1..Len(d.keys) : d.keys[j] = k
         IN  JDict(d.keys, [d.items EXCEPT ![i] = v])
    ELSE JDict(Append(d.keys, k), Append(d.items, v))

\* the position of the quote closing the string opened before i, 0 when a
\* control character comes first or the string never closes
RECURSIVE StringEnd(_, _)
StringEnd(s, i) ==
    IF i > Len(s) THEN 0
    ELSE IF s[i] = QUOTE THEN i
    ELSE IF s[i] = NL THEN 0
    ELSE StringEnd(s, i + 1)

\* s[i] is the opening quote
ParseString(s, i) ==
    LET e == StringEnd(s, i + 1)
    IN  IF e = 0 THEN Fail ELSE Ok(JStr(Sub(s, i + 1, e - 1)), e + 1)

RECURSIVE DigitsValue(_, _, _, _)
DigitsValue(s, i, e, acc) ==
    IF i >= e THEN acc ELSE DigitsValue(s, i + 1, e, acc * 10 + DigitVal(s[i]))

\* s[i] is a digit: 0, or a run of digits that starts with 1..9
ParseNumber(s, i) ==
    IF s[i] = "0" THEN Ok(JNum(0), i + 1)
    ELSE LET e == SkipDigits(s, i) IN Ok(JNum(DigitsValue(s, i, e, 0)), e)

L_null == <<"n", "u", "l", "l">>
L_true == <<"t", "r", "u", "e">>
L_false == <<"f", "a", "l", "s", "e">>

RECURSIVE ParseValue(_, _)
RECURSIVE ParseMembers(_, _, _)
RECURSIVE ParseElements(_, _, _)

\* i is the position of a member's key
ParseMembers(s, i, d) ==
    IF i > Len(s) \/ s[i] # QUOTE THEN Fail
    ELSE LET k == ParseString(s, i) IN
    IF ~k.ok THEN Fail
    ELSE LET c == SkipWs(s, k.pos) IN
    IF c > Len(s) \/ s[c] # ":" THEN Fail
    ELSE LET v == ParseValue(s, SkipWs(s, c + 1)) IN
    IF ~v.ok THEN Fail
    ELSE LET e == SkipWs(s, v.pos)
             d2 == DictPut(d, k.val.s, v.val) IN
    IF e > Len(s) THEN Fail
    ELSE IF s[e] = "}" THEN Ok(d2, e + 1)
    ELSE IF s[e] = "," THEN ParseMembers(s, SkipWs(s, e + 1), d2)
    ELSE Fail

\* i is the position of an element
ParseElements(s, i, items) ==
    LET v == ParseValue(s, i) IN
    IF ~v.ok THEN Fail
    ELSE LET e == SkipWs(s, v.pos)
             items2 == Append(items, v.val) IN
    IF e > Len(s) THEN Fail
    ELSE IF s[e] = "]" THEN Ok(JList(items2), e + 1)
    ELSE IF s[e] = "," THEN ParseElements(s, SkipWs(s, e + 1), items2)
    ELSE Fail

ParseValue(s, i) ==
    IF i > Len(s) THEN Fail
    ELSE IF s[i] = QUOTE THEN ParseString(s, i)
    ELSE IF s[i] = "{" THEN
        LET j == SkipWs(s, i + 1) IN
        IF j <= Len(s) /\ s[j] = "}" THEN Ok(EmptyDict, j + 1)
        ELSE ParseMembers(s, j, EmptyDict)
    ELSE IF s[i] = "[" THEN
        LET j == SkipWs(s, i + 1) IN
        IF j <= Len(s) /\ s[j] = "]" THEN Ok(JList(<<>>), j + 1)
        ELSE ParseElements(s, j, <<>>)
    ELSE IF MatchAt(s, i, L_null) THEN Ok(JNull, i + 4)
    ELSE IF MatchAt(s, i, L_true) THEN Ok(JBool(TRUE), i + 4)
    ELSE IF MatchAt(s, i, L_false) THEN Ok(JBool(FALSE), i + 5)
    ELSE IF s[i] \in Digits THEN ParseNumber(s, i)
    ELSE Fail

\* json.loads(s): ok is FALSE where it raises JSONDecodeError
JsonLoads(s) ==
    LET v == ParseValue(s, SkipWs(s, 1)) IN
    IF v.ok /\ SkipWs(s, v.pos) = Len(s) + 1
    THEN [ok |-> TRUE, val |-> v.val]
    ELSE [ok |-> FALSE, val |-> JNull]

-----------------------------------------------------------------------------
(* parse_json_response *)

\* the code fence, three backticks
FENCE == <<BT, BT, BT>>
L_json == <<"j", "s", "o", "n">>

\* The match of FENCE(?:json)?\s*\n?(.*?)FENCE (DOTALL) whose opening fence is at
\* i: the group starts after the optional "json" and the whitespace, and ends
\* before the next fence.  Giving back "json" or whitespace never helps: no
\* fence starts inside them.
FenceAt(s, i) ==
    LET a == IF MatchAt(s, i + 3, L_json) THEN i + 7 ELSE i + 3
        p == SkipWs(s, a)
        q == Find(s, p, FENCE)
    IN  [found |-> q # 0, cap |-> Sub(s, p, q - 1)]

\* re.search: the leftmost opening fence that has a match
RECURSIVE FenceSearchFrom(_, _)
FenceSearchFrom(s, i) ==
    LET o == Find(s, i, FENCE) IN
    IF o = 0 THEN [found |-> FALSE, cap |-> <<>>]
    ELSE IF FenceAt(s, o).found THEN FenceAt(s, o)
    ELSE FenceSearchFrom(s, o + 1)

FenceSearch(s) == FenceSearchFrom(s, 1)

\* re.search(r"\{.*\}", s, re.DOTALL): the first "{" to the last "}"
BraceSearch(s) ==
    LET a == Find(s, 1, <<"{">>)
        b == FindLast(s, Len(s), <<"}">>)
    IN  IF a # 0 /\ b > a THEN [found |-> TRUE, cap |-> Sub(s, a, b)]
        ELSE [found |-> FALSE, cap |-> <<>>]

\* the candidate text: the stripped input, or the stripped content of its
\* first fenced block
Candidate(t) ==
    LET s == Strip(t)
        m == FenceSearch(s)
    IN  IF m.found THEN Strip(m.cap) ELSE s

parse_json_response(t) ==
    LET c == Candidate(t)
        strict == JsonLoads(c)
        m == BraceSearch(c)
        loose == JsonLoads(m.cap)
    IN  IF strict.ok THEN strict.val
        ELSE IF m.found /\ loose.ok THEN loose.val
        ELSE EmptyDict

-----------------------------------------------------------------------------
(* _extract_linkedin_job_id *)

L_jobsview == <<"j", "o", "b", "s", "/", "v", "i", "e", "w", "/">>
L_currentJobId == <<"c", "u", "r", "r", "e", "n", "t", "J", "o", "b", "I", "d", "=">>

\* \d{8,} of the path-segment pattern and of the trailing-segment pattern
MinPathDigits == 8
MinTrailDigits == 8

NoId == [found |-> FALSE, id |-> <<>>, pat |-> 0]
FoundId(id, pat) == [found |-> TRUE, id |-> id, pat |-> pat]

\* the number of digits in the run that starts at i
DigitRun(s, i) == SkipDigits(s, i) - i

\* (?:.*?[-/])? read lazily, with everything before j consumed: the start
\* of the digits after the first separator that at least MinPathDigits
\* digits follow, 0 when there is none ("." takes no line break)
RECURSIVE LazySeparator(_, _)
LazySeparator(s, j) ==
    IF j > Len(s) THEN 0
    ELSE IF s[j] \in {"-", "/"} /\ DigitRun(s, j + 1) >= MinPathDigits THEN j + 1
    ELSE IF s[j] = NL THEN 0
    ELSE LazySeparator(s, j + 1)

\* jobs/view/(\d{8,}): the optional group left out
IdPathAtNoGroup(s, i) ==
    LET p == i + Len(L_jobsview)
    IN  IF DigitRun(s, p) >= MinPathDigits THEN Sub(s, p, SkipDigits(s, p) - 1)
        ELSE <<>>

\* jobs/view/(?:.*?[-/])?(\d{8,}) with "jobs/view/" at i: the group is tried
\* first, and without it the digits must follow at once
IdPathAt(s, i) ==
    LET p == i + Len(L_jobsview)
        g == LazySeparator(s, p)
    IN  IF g # 0 THEN Sub(s, g, SkipDigits(s, g) - 1)
        ELSE IF DigitRun(s, p) >= MinPathDigits THEN Sub(s, p, SkipDigits(s, p) - 1)
        ELSE <<>>

RECURSIVE IdPathFrom(_, _)
IdPathFrom(s, i) ==
    LET o == Find(s, i, L_jobsview) IN
    IF o = 0 THEN <<>>
    ELSE IF IdPathAt(s, o) # <<>> THEN IdPathAt(s, o)
    ELSE IdPathFrom(s, o + 1)

\* re.search(r"jobs/view/(?:.*?[-/])?(\d{8,})", url): group 1, <<>> for no match
IdPath(s) == IdPathFrom(s, 1)

\* currentJobId=(\d): the capture stops after one digit
IdQueryOneDigit(s) ==
    LET o == Find(s, 1, L_currentJobId)
        p == o + Len(L_currentJobId)
    IN  IF o # 0 /\ DigitRun(s, p) >= 1 THEN Sub(s, p, p) ELSE <<>>

RECURSIVE IdQueryFrom(_, _)
IdQueryFrom(s, i) ==
    LET o == Find(s, i, L_currentJobId)
        p == o + Len(L_currentJobId)
    IN  IF o = 0 THEN <<>>
        ELSE IF DigitRun(s, p) >= 1 THEN Sub(s, p, SkipDigits(s, p) - 1)
        ELSE IdQueryFrom(s, o + 1)

\* re.search(r"currentJobId=(\d+)", url)
IdQuery(s) == IdQueryFrom(s, 1)

\* "$": the end of the string, or the line break that ends it
AtEnd(s, j) == j = Len(s) + 1 \/ (j = Len(s) /\ s[j] = NL)

\* /(\d{8,})/?(?:\?|$) with "/" at i: only the whole run of digits can be
\* followed by what the pattern asks for
IdTrailAt(s, i) ==
    LET e == SkipDigits(s, i + 1)
        j == IF e <= Len(s) /\ s[e] = "/" THEN e + 1 ELSE e
    IN  IF /\ e - (i + 1) >= MinTrailDigits
           /\ \/ AtEnd(s, j)
              \/ (j <= Len(s) /\ s[j] = "?")
        THEN Sub(s, i + 1, e - 1)
        ELSE <<>>

RECURSIVE IdTrailFrom(_, _)
IdTrailFrom(s, i) ==
    LET o == Find(s, i, <<"/">>) IN
    IF o = 0 THEN <<>>
    ELSE IF IdTrailAt(s, o) # <<>> THEN IdTrailAt(s, o)
    ELSE IdTrailFrom(s, o + 1)

\* re.search(r"/(\d{8,})/?(?:\?|$)", url)
IdTrail(s) == IdTrailFrom(s, 1)

\* the query-parameter pattern tried before the path-segment pattern
_extract_linkedin_job_idQueryFirst(s) ==
    IF IdQuery(s) # <<>> THEN FoundId(IdQuery(s), 2)
    ELSE IF IdPath(s) # <<>> THEN FoundId(IdPath(s), 1)
    ELSE IF IdTrail(s) # <<>> THEN FoundId(IdTrail(s), 3)
    ELSE NoId

\* the first pattern that matches decides; pat tells which one it was
_extract_linkedin_job_id(s) ==
    IF IdPath(s) # <<>> THEN FoundId(IdPath(s), 1)
    ELSE IF IdQuery(s) # <<>> THEN FoundId(IdQuery(s), 2)
    ELSE IF IdTrail(s) # <<>> THEN FoundId(IdTrail(s), 3)
    ELSE NoId

-----------------------------------------------------------------------------
(* Page content: texts of which only lengths and whitespace edges matter *)

\* A text: lead whitespace characters, then core characters that begin and
\* end with one that is no whitespace, then trail whitespace characters;
\* markup counts the characters of HTML tags inside it.  A text of
\* whitespace only has core 0 and all its characters in lead.
Txt(lead, core, trail, markup) ==
    [lead |-> lead, core |-> core, trail |-> trail, markup |-> markup]

EmptyTxt == Txt(0, 0, 0, 0)

\* len(text)
TxtLen(t) == t.lead + t.core + t.trail + t.markup

\* a + b
TxtCat(a, b) ==
    IF a.core = 0 /\ b.core = 0
        THEN Txt(a.lead + b.lead, 0, 0, a.markup + b.markup)
    ELSE IF a.core = 0
        THEN Txt(a.lead + b.lead, b.core, b.trail, a.markup + b.markup)
    ELSE IF b.core = 0
        THEN Txt(a.lead, a.core, a.trail + b.lead, a.markup + b.markup)
    ELSE Txt(a.lead, a.core + a.trail + b.lead + b.core, b.trail,
             a.markup + b.markup)

\* BeautifulSoup(text, "html.parser").get_text(...): the tags go, the text and
\* its whitespace stay
GetText(t) == Txt(t.lead, t.core, t.trail, 0)

\* str.strip() of a text without markup
TxtStrip(t) == Txt(0, t.core, 0, t.markup)

\* "Job Title: ", "\nCompany: " and "\n\n" of the JSON-LD text
T_JobTitle == Txt(0, 10, 1, 0)
T_Company == Txt(1, 8, 1, 0)
T_Blank == Txt(2, 0, 0, 0)

\* An element the soup found (has), with the characters of its text nodes,
\* each stripped, and the number of its text nodes that are not empty
El(chars, nodes) == [has |-> TRUE, chars |-> chars, nodes |-> nodes]
NoEl == [has |-> FALSE, chars |-> 0, nodes |-> 0]

\* len(el.get_text(strip=True))
ElLen(e) == e.chars

\* len(el.get_text(separator="\n", strip=True))
ElLenSep(e) == e.chars + (IF e.nodes > 1 THEN e.nodes - 1 ELSE 0)

\* What scrape_job_url returns: None, or a text with the strategy that
\* produced it, its length and the labels it carries
None == [some |-> FALSE, src |-> "none", len |-> 0, labels |-> {}]
Text(src, len, labels) ==
    [some |-> TRUE, src |-> src, len |-> len, labels |-> labels]

\* Python's truth value of a str | None
Truthy(r) == r.some /\ r.len > 0

-----------------------------------------------------------------------------
(* _scrape_linkedin_guest_api *)

\* len(resp.text) > 200 and len(text) > 100
ApiMinRaw == 200
ApiMinText == 100

\* len("Job Title: "), len("Company: "), len("Location: "), len("\n")
LenJobTitle == 11
LenCompany == 9
LenLocation == 10
LenDescLead == 1

\* the parts list: the length and the label of each part appended
ApiParts(r) ==
    (IF r.title.has THEN <<[len |-> LenJobTitle + ElLen(r.title), label |-> "Job Title:"]>> ELSE <<>>)
    \o (IF r.company.has THEN <<[len |-> LenCompany + ElLen(r.company), label |-> "Company:"]>> ELSE <<>>)
    \o (IF r.loc.has THEN <<[len |-> LenLocation + ElLen(r.loc), label |-> "Location:"]>> ELSE <<>>)
    \o (IF r.desc.has THEN <<[len |-> LenDescLead + ElLenSep(r.desc), label |-> "description"]>> ELSE <<>>)

RECURSIVE SumLen(_)
SumLen(parts) == IF parts = <<>> THEN 0 ELSE Head(parts).len + SumLen(Tail(parts))

\* len("\n".join(parts))
JoinedLen(parts) ==
    SumLen(parts) + (IF Len(parts) > 1 THEN Len(parts) - 1 ELSE 0)

\* r is the outcome of the GET: status "error" is an exception of
\* requests.get, "bad" a response that is not ok
_scrape_linkedin_guest_api(r) ==
    IF r.status = "ok" /\ r.rawlen > ApiMinRaw /\ JoinedLen(ApiParts(r)) > ApiMinText
    THEN Text("api", JoinedLen(ApiParts(r)),
              {ApiParts(r)[i].label : i \in 1..Len(ApiParts(r))} \ {"description"})
    ELSE None

-----------------------------------------------------------------------------
(* scrape_job_url: the steps on the fetched page *)

LdMinText == 100
CssMinText == 200
BodyMinText == 200
CacheMinText == 200

\* the selectors of the CSS step, in their order
NSelectors == 7

\* the text the JSON-LD step makes of a JobPosting object
LdText(o) ==
    TxtCat(T_JobTitle,
    TxtCat(o.title,
    TxtCat(T_Company,
    TxtCat(IF o.orgdict THEN o.company ELSE EmptyTxt,
    TxtCat(T_Blank, o.desc)))))

LdClean(o) == GetText(LdText(o))

\* One round of the loop over the JSON-LD scripts: "continue" (nothing
\* found, or JSONDecodeError / AttributeError caught), "raise" (an exception
\* the inner handler does not catch: data[0] of an empty list) or "return"
LdBlockStep(b) ==
    IF b.parse = "error" THEN [kind |-> "continue", text |-> None]
    ELSE IF b.top = "list" /\ b.items = <<>> THEN [kind |-> "raise", text |-> None]
    ELSE IF b.top = "other" THEN [kind |-> "continue", text |-> None]
    ELSE LET data == b.items[1] IN
         IF /\ data.isdict
            /\ data.type = "JobPosting"
            /\ TxtLen(LdClean(data)) > LdMinText
         THEN [kind |-> "return",
               text |-> Text("jsonld", TxtLen(TxtStrip(LdClean(data))),
                             {"Job Title:", "Company:"})]
         ELSE [kind |-> "continue", text |-> None]

\* the loop over soup.find_all("script", type="application/ld+json")
RECURSIVE LdScan(_)
LdScan(scripts) ==
    IF scripts = <<>> THEN [kind |-> "none", text |-> None]
    ELSE IF LdBlockStep(Head(scripts)).kind = "continue" THEN LdScan(Tail(scripts))
    ELSE LdBlockStep(Head(scripts))

\* the loop over the selectors accepting a text of exactly the threshold
RECURSIVE CssScanAtLeast(_, _)
CssScanAtLeast(sel, i) ==
    IF i > Len(sel) THEN None
    ELSE IF sel[i].has /\ ElLen(sel[i]) >= CssMinText
        THEN Text("css", ElLenSep(sel[i]), {})
    ELSE CssScanAtLeast(sel, i + 1)

\* the loop over the selectors from the i-th on
RECURSIVE CssScan(_, _)
CssScan(sel, i) ==
    IF i > Len(sel) THEN None
    ELSE IF sel[i].has /\ ElLen(sel[i]) > CssMinText
        THEN Text("css", ElLenSep(sel[i]), {})
    ELSE CssScan(sel, i + 1)

\* the body's text whatever its length
BodyTextAnyLength(body, src, min) ==
    IF body.has /\ ElLenSep(body) > 0 THEN Text(src, ElLenSep(body), {})
    ELSE None

\* soup.find("body") and its text
BodyText(body, src, min) ==
    IF body.has /\ ElLenSep(body) > min THEN Text(src, ElLenSep(body), {})
    ELSE None

-----------------------------------------------------------------------------
(* scrape_job_url: the URL *)

L_http == <<"h", "t", "t", "p">>
L_linkedin == <<"l", "i", "n", "k", "e", "d", "i", "n", ".", "c", "o", "m">>

Lower == {"a", "b", "c", "d", "e", "f", "g", "h", "i", "j", "k", "l", "m",
          "n", "o", "p", "q", "r", "s", "t", "u", "v", "w", "x", "y", "z"}
Upper == {"A", "B", "C", "D", "E", "F", "G", "H", "I", "J", "K", "L", "M",
          "N", "O", "P", "Q", "R", "S", "T", "U", "V", "W", "X", "Y", "Z"}
SchemeChars == Lower \cup Upper \cup Digits \cup {"+", "-", "."}

\* the least position >= i that holds one of "/", "?", "#" (Len(s)+1 if none)
RECURSIVE NetlocEnd(_, _)
NetlocEnd(s, i) ==
    IF i > Len(s) \/ s[i] \in {"/", "?", "#"} THEN i ELSE NetlocEnd(s, i + 1)

\* urlparse(url): the netloc, and whether it raises ValueError (a netloc
\* with one kind of square bracket only: "Invalid IPv6 URL")
urlparse(s) ==
    LET c == Find(s, 1, <<":">>)
        scheme == /\ c > 1
                  /\ s[1] \in Lower \cup Upper
                  /\ \A k \in 1..(c - 1) : s[k] \in SchemeChars
        rest == IF scheme THEN Sub(s, c + 1, Len(s)) ELSE s
        netloc == IF MatchAt(rest, 1, <<"/", "/">>)
                  THEN Sub(rest, 3, NetlocEnd(rest, 3) - 1)
                  ELSE <<>>
    IN  [raised |-> Contains(netloc, <<"[">>) # Contains(netloc, <<"]">>),
         netloc |-> netloc]

-----------------------------------------------------------------------------
(* The values of a component's variables while another component runs *)

NoSel == [i \in 1..NSelectors |-> NoEl]
NoApi == [status |-> "none", rawlen |-> 0, title |-> NoEl, company |-> NoEl,
          loc |-> NoEl, desc |-> NoEl]
NoPage == [status |-> "none", scripts |-> <<>>, sel |-> NoSel, body |-> NoEl]
NoCache == [status |-> "none", scripts |-> <<>>, body |-> NoEl]

ScrapeIdle ==
    /\ url = <<>> /\ pc = "idle" /\ jid = NoId /\ result = None
    /\ tried = <<>> /\ gets = <<>>
    /\ api = NoApi /\ page = NoPage /\ cache = NoCache

ParserIdle == text = <<>> /\ ppc = "idle" /\ presult = EmptyDict

NoSiteText == [kind |-> "none", len |-> 0]

SiteIdle ==
    /\ company_url = <<>> /\ your_company_url = <<>> /\ spc = "idle"
    /\ site_gets = <<>>
    /\ competitor_website_text = NoSiteText /\ your_website_text = NoSiteText
    /\ prompt = <<>>

RenderIdle ==
    /\ rpc = "idle" /\ source = <<>> /\ tailored = JNull
    /\ html_with_highlights = <<>> /\ html_clean = <<>>

NoConfig == [models |-> <<>>, default |-> "", label |-> ""]
NoClient == [stopped |-> FALSE, provider_type |-> "", vendor |-> <<>>,
             api_key |-> <<>>, base_url |-> <<>>]

ClientIdle ==
    /\ env = <<>> /\ pconfig = NoConfig /\ selected_model = ""
    /\ client = NoClient /\ cpc = "idle"

NoService == [ok |-> FALSE, answers |-> <<>>]

SearchIdle ==
    /\ ddgs = NoService /\ queries = <<>> /\ qi = 0
    /\ all_results = <<>> /\ web_results = <<>> /\ wpc = "idle"

NoPdf == [chrome |-> FALSE, raised |-> FALSE, exit |-> 0, exists |-> FALSE,
          size |-> 0, bytes |-> 0, warned |-> FALSE, called |-> FALSE]

RunIdle ==
    /\ jd_inputs = <<>> /\ idx = 0 /\ jd_analysis = JNull
    /\ company_intel = JNull /\ match_notes = JNull /\ pdf = NoPdf
    /\ results = <<>> /\ session = <<>> /\ steps = <<>> /\ errors = <<>>
    /\ runpc = "idle"

AuxIdle == ClientIdle /\ SearchIdle /\ RunIdle

-----------------------------------------------------------------------------
(* The parser's inputs: model responses put together from a few pieces *)

MaxParts == 3

P_obj == <<"{", "\"", "a", "\"", ":", "1", "}">>
P_objFence == <<"{", "\"", "a", "\"", ":", "\"", BT, BT, BT, "\"", "}">>
P_objBrace == <<"{", "\"", "a", "\"", ":", "\"", "}", "\"", "}">>
P_list == <<"[", "1", ",", "2", "]">>
P_num == <<"4", "2">>
P_str == <<"\"", "s", "\"">>
P_open == <<BT, BT, BT, "j", "s", "o", "n", "\n">>
P_talk == <<"x", " ">>
P_nl == <<"\n">>
P_lbrace == <<"{">>

Pieces ==
    {P_obj, P_objFence, P_objBrace, P_list, P_num, P_str, L_null,
     P_open, FENCE, P_talk, P_nl, P_lbrace}

RECURSIVE TextsUpTo(_)
TextsUpTo(n) ==
    IF n = 0 THEN {<<>>}
    ELSE LET T == TextsUpTo(n - 1) IN T \cup {t \o p : t \in T, p \in Pieces}

Responses == TextsUpTo(MaxParts)

InitParse ==
    /\ text \in Responses
    /\ ppc = "start"
    /\ presult = EmptyDict
    /\ ScrapeIdle /\ SiteIdle /\ RenderIdle /\ AuxIdle

\* one call of parse_json_response
Parse ==
    /\ ppc = "start"
    /\ presult' = parse_json_response(text)
    /\ ppc' = "done"
    /\ UNCHANGED <<text, scrapeVars, siteVars, renderVars, auxVars>>

NextParse == Parse

SpecParse == InitParse /\ [][NextParse]_vars

-----------------------------------------------------------------------------
(* Claims about parse_json_response, checked under SpecParse *)

\* C1: for every input, the value parse_json_response hands back is a
\* mapping (a dict), whatever strict JSON parsing yields for the candidate.
C1_AlwaysMapping == ppc = "done" => IsDict(presult)

\* the text is a JSON object, with whitespace around it
IsBareObject(t) == JsonLoads(t).ok /\ IsDict(JsonLoads(t).val)

\* What a fenced text wraps: the stripped text opens with a fence (and
\* "json"), closes with a fence, and what lies between is the content.
Unfenced(t) ==
    LET s == Strip(t)
        a == IF MatchAt(s, 4, L_json) THEN 8 ELSE 4
    IN  IF Len(s) >= 6 /\ MatchAt(s, 1, FENCE) /\ MatchAt(s, Len(s) - 2, FENCE)
        THEN [fenced |-> TRUE, inner |-> Sub(s, a, Len(s) - 3)]
        ELSE [fenced |-> FALSE, inner |-> <<>>]

IsFencedObject(t) == Unfenced(t).fenced /\ IsBareObject(Unfenced(t).inner)

\* C2: for every text that is a valid JSON object, bare or wrapped in a
\* code fence, parse_json_response returns a mapping equal to that object,
\* also when a string value of the object holds code fences or braces.
C2_ObjectRoundTrip ==
    ppc = "done" =>
        /\ IsBareObject(text) => presult = JsonLoads(text).val
        /\ IsFencedObject(text) => presult = JsonLoads(Unfenced(text).inner).val

\* some region of t from a "{" to a "}" parses as JSON
HasParseableRegion(t) ==
    \E a \in 1..Len(t), b \in 1..Len(t) :
        /\ a < b /\ t[a] = "{" /\ t[b] = "}"
        /\ JsonLoads(Sub(t, a, b)).ok

\* C3: for every text that holds no {...} region that parses as JSON,
\* parse_json_response returns the empty mapping.
C3_NoRegionEmpty ==
    (ppc = "done" /\ ~HasParseableRegion(text)) => presult = EmptyDict

\* C19: when strict parsing of the candidate fails, the region from the
\* first "{" to the last "}" of the ORIGINAL (stripped) input text is parsed,
\* so an object that stands outside a fenced block whose content is not JSON
\* is still returned.
C19_BraceSearchOnOriginal ==
    (/\ ppc = "done"
     /\ ~JsonLoads(Candidate(text)).ok
     /\ BraceSearch(Strip(text)).found
     /\ JsonLoads(BraceSearch(Strip(text)).cap).ok)
    => presult = JsonLoads(BraceSearch(Strip(text)).cap).val

-----------------------------------------------------------------------------
(* The identifier extraction's inputs: URLs put together from a few pieces *)

MaxUrlParts == 4

U_linkedin == <<"h", "t", "t", "p", "s", ":", "/", "/", "w", "w", "w", ".",
                "l", "i", "n", "k", "e", "d", "i", "n", ".", "c", "o", "m">>
D8 == <<"1", "2", "3", "4", "5", "6", "7", "8">>
D7 == <<"1", "2", "3", "4", "5", "6", "7">>

UrlPieces ==
    {<<"/">> \o L_jobsview, D8, D7, <<"9">>, <<"-">>, <<"/">>,
     <<"?">> \o L_currentJobId, <<"x">>, <<"?">>}

RECURSIVE TailsUpTo(_)
TailsUpTo(n) ==
    IF n = 0 THEN {<<>>}
    ELSE LET T == TailsUpTo(n - 1) IN T \cup {t \o p : t \in T, p \in UrlPieces}

IdUrls == {U_linkedin \o t : t \in TailsUpTo(MaxUrlParts)}

InitId ==
    /\ url \in IdUrls
    /\ pc = "id_start"
    /\ jid = NoId
    /\ result = None /\ tried = <<>> /\ gets = <<>>
    /\ api = NoApi /\ page = NoPage /\ cache = NoCache
    /\ ParserIdle /\ SiteIdle /\ RenderIdle /\ AuxIdle

\* one call of _extract_linkedin_job_id
ExtractId ==
    /\ pc = "id_start"
    /\ jid' = _extract_linkedin_job_id(url)
    /\ pc' = "id_done"
    /\ UNCHANGED <<url, result, tried, gets, api, page, cache, parserVars, siteVars, renderVars, auxVars>>

NextId == ExtractId

SpecId == InitId /\ [][NextId]_vars

-----------------------------------------------------------------------------
(* The extractor chain's inputs: URLs and the responses of the three GETs *)

MaxScripts == 2

U_example == <<"h", "t", "t", "p", "s", ":", "/", "/", "e", "x", "a", "m", "p",
               "l", "e", ".", "c", "o", "m">>
U_viewPath == <<"/", "j", "o", "b", "s", "/", "v", "i", "e", "w", "/", "s", "e",
                "n", "i", "o", "r", "-", "e", "n", "g", "i", "n", "e", "e", "r",
                "-">> \o D8
U_searchPath == <<"/", "j", "o", "b", "s", "/", "s", "e", "a", "r", "c", "h",
                  "/", "?">> \o L_currentJobId \o D7
U_listPath == <<"/", "j", "o", "b", "s", "/">>

\* https://www.linkedin.com/jobs/view/senior-engineer-12345678
LinkedinJobUrl == U_linkedin \o U_viewPath
\* https://example.com/jobs/view/senior-engineer-12345678
ExampleJobUrl == U_example \o U_viewPath
\* http://[ : a netloc with an opening square bracket only
BracketUrl == <<"h", "t", "t", "p", ":", "/", "/", "[">>

ScrapeUrls ==
    {LinkedinJobUrl, U_linkedin \o U_searchPath, U_linkedin \o U_listPath,
     ExampleJobUrl, BracketUrl, <<"f", "t", "p", ":", "/", "/", "x">>, <<>>}

ApiResp(status, rawlen, title, company, loc, desc) ==
    [status |-> status, rawlen |-> rawlen, title |-> title,
     company |-> company, loc |-> loc, desc |-> desc]

\* a title, a company and a description of 300 characters together
ApiBlock300 == ApiResp("ok", 5000, El(30, 1), El(20, 1), NoEl, El(250, 4))

ApiResponses ==
    {ApiResp("error", 0, NoEl, NoEl, NoEl, NoEl),
     ApiResp("bad", 5000, El(30, 1), El(20, 1), NoEl, El(250, 4)),
     ApiResp("ok", 200, El(150, 1), NoEl, NoEl, NoEl),
     ApiResp("ok", 5000, NoEl, NoEl, NoEl, NoEl),
     ApiResp("ok", 5000, El(89, 1), NoEl, NoEl, NoEl),
     ApiResp("ok", 5000, El(90, 1), NoEl, NoEl, NoEl),
     ApiResp("ok", 5000, NoEl, NoEl, NoEl, El(300, 1)),
     ApiBlock300}

\* the objects of the JSON-LD scripts
LdObj(isdict, type, title, orgdict, company, desc) ==
    [isdict |-> isdict, type |-> type, title |-> title, orgdict |-> orgdict,
     company |-> company, desc |-> desc]

\* a posting with a description of 300 characters inside 20 of tags
O_long == LdObj(TRUE, "JobPosting", Txt(0, 8, 0, 0), TRUE, Txt(0, 4, 0, 0),
                Txt(0, 300, 0, 20))
\* a posting of 40 characters of text inside 80 of tags
O_tiny == LdObj(TRUE, "JobPosting", Txt(0, 5, 0, 0), TRUE, Txt(0, 2, 0, 0),
                Txt(0, 10, 0, 80))
\* a posting whose description is 150 characters of whitespace
O_pad == LdObj(TRUE, "JobPosting", Txt(0, 8, 0, 0), TRUE, Txt(0, 4, 0, 0),
               Txt(150, 0, 0, 0))
\* a posting whose hiringOrganization is a string
O_orgstr == LdObj(TRUE, "JobPosting", Txt(0, 8, 0, 0), FALSE, Txt(0, 4, 0, 0),
                  Txt(1, 120, 3, 0))
O_other == LdObj(TRUE, "Organization", Txt(0, 8, 0, 0), TRUE, Txt(0, 4, 0, 0),
                 Txt(0, 300, 0, 0))
O_nondict == LdObj(FALSE, "", EmptyTxt, FALSE, EmptyTxt, EmptyTxt)

LdBlock(parse, top, items) == [parse |-> parse, top |-> top, items |-> items]

LdBlocks ==
    {LdBlock("error", "other", <<>>),
     LdBlock("ok", "list", <<>>),
     LdBlock("ok", "list", <<O_nondict, O_long>>),
     LdBlock("ok", "list", <<O_other, O_long>>),
     LdBlock("ok", "dict", <<O_long>>),
     LdBlock("ok", "dict", <<O_tiny>>),
     LdBlock("ok", "dict", <<O_pad>>),
     LdBlock("ok", "dict", <<O_orgstr>>)}

RECURSIVE ScriptsUpTo(_)
ScriptsUpTo(n) ==
    IF n = 0 THEN {<<>>}
    ELSE LET T == ScriptsUpTo(n - 1) IN T \cup {Append(t, b) : t \in T, b \in LdBlocks}

Sel1(i, e) == [k \in 1..NSelectors |-> IF k = i THEN e ELSE NoEl]
Sel2(i, e, j, f) ==
    [k \in 1..NSelectors |-> IF k = i THEN e ELSE IF k = j THEN f ELSE NoEl]

SelConfigs ==
    {NoSel,
     Sel1(3, El(49, 2)),
     Sel1(1, El(201, 3)),
     Sel1(7, El(201, 3)),
     Sel2(1, El(200, 1), 6, El(201, 3)),
     Sel2(1, El(201, 3), 6, El(300, 1))}

Bodies == {NoEl, El(49, 2), El(200, 1), El(400, 5)}

PageResp(status, scripts, sel, body) ==
    [status |-> status, scripts |-> scripts, sel |-> sel, body |-> body]

\* the text of the body holds the text of every element inside it
BodiesFor(sel) ==
    {b \in Bodies : b.has => \A k \in 1..NSelectors : sel[k].chars <= b.chars}

Contents == UNION {{[sel |-> sel, body |-> b] : b \in BodiesFor(sel)} : sel \in SelConfigs}

Pages ==
    {PageResp("error", <<>>, NoSel, NoEl), PageResp("bad", <<>>, NoSel, NoEl)}
    \cup {PageResp("ok", sc, c.sel, c.body) :
            sc \in ScriptsUpTo(MaxScripts), c \in Contents}

\* the page the cache mirror serves: its JSON-LD scripts and its body
CachePage(status, scripts, body) ==
    [status |-> status, scripts |-> scripts, body |-> body]

CacheResp(status, body) == CachePage(status, <<>>, body)

CacheResponses ==
    {CacheResp("error", NoEl), CacheResp("bad", El(500, 9)),
     CacheResp("ok", NoEl), CacheResp("ok", El(200, 1)),
     CacheResp("ok", El(500, 9)),
     CachePage("ok", <<LdBlock("ok", "dict", <<O_long>>)>>, El(49, 2))}

-----------------------------------------------------------------------------
(* scrape_job_url *)

Ran(s, hit) == [s |-> s, hit |-> hit]

InitScrape ==
    /\ url \in ScrapeUrls
    /\ pc = "start"
    /\ jid = NoId
    /\ result = None
    /\ tried = <<>>
    /\ gets = <<>>
    /\ api = NoApi /\ page = NoPage /\ cache = NoCache
    /\ ParserIdle /\ SiteIdle /\ RenderIdle /\ AuxIdle

\* "linkedin.com" in parsed.netloc
IsLinkedin(netloc) == Contains(netloc, L_linkedin)

\* the guard, urlparse and the choice of the platform API path
Begin ==
    /\ pc = "start"
    /\ IF url = <<>> \/ ~MatchAt(url, 1, L_http)
         THEN pc' = "done" /\ jid' = jid
       ELSE IF urlparse(url).raised
         THEN pc' = "raised" /\ jid' = jid
       ELSE IF IsLinkedin(urlparse(url).netloc)
         THEN /\ jid' = _extract_linkedin_job_id(url)
              /\ pc' = IF jid'.found /\ jid'.id # <<>> THEN "api" ELSE "fetch"
       ELSE pc' = "fetch" /\ jid' = jid
    /\ UNCHANGED <<url, result, tried, gets, api, page, cache, parserVars, siteVars, renderVars, auxVars>>

\* the platform API path: one GET, then the labeled text or nothing
PlatformApi ==
    /\ pc = "api"
    /\ \E r \in ApiResponses :
        /\ api' = r
        /\ gets' = Append(gets, "api")
        /\ LET res == _scrape_linkedin_guest_api(r) IN
            /\ tried' = Append(tried, Ran("api", Truthy(res)))
            /\ IF Truthy(res) THEN result' = res /\ pc' = "done"
               ELSE result' = result /\ pc' = "fetch"
    /\ UNCHANGED <<url, jid, page, cache, parserVars, siteVars, renderVars, auxVars>>

\* the GET of the URL issued a second time after a failure
FetchPageRetry ==
    /\ pc = "fetch"
    /\ \E p \in Pages :
        /\ page' = p
        /\ gets' = Append(gets, "page")
        /\ pc' = IF p.status = "ok" THEN "jsonld"
                 ELSE IF "page" \in {gets[i] : i \in 1..Len(gets)} THEN "cache"
                 ELSE "fetch"
    /\ UNCHANGED <<url, jid, result, tried, api, cache, parserVars, siteVars, renderVars, auxVars>>

\* the GET of the URL, raise_for_status and the parse of the page
FetchPage ==
    /\ pc = "fetch"
    /\ \E p \in Pages :
        /\ page' = p
        /\ gets' = Append(gets, "page")
        /\ pc' = IF p.status = "ok" THEN "jsonld" ELSE "cache"
    /\ UNCHANGED <<url, jid, result, tried, api, cache, parserVars, siteVars, renderVars, auxVars>>

\* the structured-data step
JsonLd ==
    /\ pc = "jsonld"
    /\ LET o == LdScan(page.scripts) IN
        /\ tried' = Append(tried, Ran("jsonld", o.kind = "return"))
        /\ IF o.kind = "return" THEN result' = o.text /\ pc' = "done"
           ELSE IF o.kind = "raise" THEN result' = result /\ pc' = "cache"
           ELSE result' = result /\ pc' = "css"
    /\ UNCHANGED <<url, jid, gets, api, page, cache, parserVars, siteVars, renderVars, auxVars>>

\* the CSS selector step going on to the raw body after a success
CssSelectorsNoStop ==
    /\ pc = "css"
    /\ LET res == CssScan(page.sel, 1) IN
        /\ tried' = Append(tried, Ran("css", res.some))
        /\ result' = IF res.some THEN res ELSE result
        /\ pc' = "body"
    /\ UNCHANGED <<url, jid, gets, api, page, cache, parserVars, siteVars, renderVars, auxVars>>

\* the CSS selector step
CssSelectors ==
    /\ pc = "css"
    /\ LET res == CssScan(page.sel, 1) IN
        /\ tried' = Append(tried, Ran("css", res.some))
        /\ IF res.some THEN result' = res /\ pc' = "done"
           ELSE result' = result /\ pc' = "body"
    /\ UNCHANGED <<url, jid, gets, api, page, cache, parserVars, siteVars, renderVars, auxVars>>

\* the raw body step
RawBody ==
    /\ pc = "body"
    /\ LET res == BodyText(page.body, "body", BodyMinText) IN
        /\ tried' = Append(tried, Ran("body", res.some))
        /\ IF res.some THEN result' = res /\ pc' = "done"
           ELSE result' = result /\ pc' = "cache"
    /\ UNCHANGED <<url, jid, gets, api, page, cache, parserVars, siteVars, renderVars, auxVars>>

\* the cached-page fallback: one GET, then the body text or None
CachedPage ==
    /\ pc = "cache"
    /\ \E c \in CacheResponses :
        /\ cache' = c
        /\ gets' = Append(gets, "cache")
        /\ LET res == IF c.status = "ok"
                      THEN BodyText(c.body, "cache", CacheMinText)
                      ELSE None
           IN  /\ tried' = Append(tried, Ran("cache", res.some))
               /\ result' = res
               /\ pc' = "done"
    /\ UNCHANGED <<url, jid, api, page, parserVars, siteVars, renderVars, auxVars>>

NextScrape ==
    \/ Begin
    \/ PlatformApi
    \/ FetchPage
    \/ JsonLd
    \/ CssSelectors
    \/ RawBody
    \/ CachedPage

SpecScrape == InitScrape /\ [][NextScrape]_vars

-----------------------------------------------------------------------------
(* Claims about scrape_job_url, checked under SpecScrape *)

Last(q) == q[Len(q)]

\* C4: every value scrape_job_url returns that is not None is a string of at
\* least the minimum content threshold of 100 characters, measured on the
\* string that is returned.
C4_ReturnedMeetsThreshold == result.some => result.len >= LdMinText

\* C5: scrape_job_url never raises to its caller, whatever the URL string and
\* whatever the fetches do.
C5_NeverRaises == pc # "raised"

\* C6: an exception inside the JSON-LD step only turns that step into "no
\* result": whenever the step ends without a text, the CSS selector step is
\* the next to run on that page.
C6_ExceptionKeepsChain ==
    \A i \in 1..Len(tried) :
        tried[i] = Ran("jsonld", FALSE) =>
            \/ i = Len(tried) /\ pc = "css"
            \/ i < Len(tried) /\ tried[i + 1].s = "css"

\* the place of a strategy in the chain's order
Rank(st) ==
    CASE st = "api" -> 1 [] st = "jsonld" -> 2 [] st = "css" -> 3
      [] st = "body" -> 4 [] st = "cache" -> 5

\* the GET that serves a strategy
GetOf(st) ==
    CASE st = "api" -> "api" [] st = "cache" -> "cache" [] OTHER -> "page"

GetRank(g) == CASE g = "api" -> 1 [] g = "page" -> 2 [] g = "cache" -> 3

\* C7: the strategies run in the order platform API, JSON-LD, CSS selectors,
\* raw body, cached page; the value returned is that of the first strategy
\* that produced a text, and after it no strategy runs and no GET is issued.
C7_OrderedShortCircuit ==
    /\ \A i, j \in 1..Len(tried) : i < j => Rank(tried[i].s) < Rank(tried[j].s)
    /\ \A i, j \in 1..Len(gets) : i < j => GetRank(gets[i]) < GetRank(gets[j])
    /\ \A i \in 1..Len(tried) : tried[i].hit => i = Len(tried)
    /\ result.some <=> (tried # <<>> /\ Last(tried).hit)
    /\ result.some =>
        /\ pc = "done"
        /\ result.src = Last(tried).s
        /\ Last(gets) = GetOf(result.src)

\* the CSS step returned its text after the platform API and the JSON-LD step
\* had produced nothing
C7_Witness ==
    /\ pc = "done" /\ result.some /\ result.src = "css"
    /\ Len(tried) = 3 /\ tried[1].s = "api" /\ tried[2].s = "jsonld"

\* o is a JobPosting object whose synthesized text exceeds the threshold
IsPosting(o) ==
    o.isdict /\ o.type = "JobPosting" /\ TxtLen(LdClean(o)) > LdMinText

\* the places of the postings in the block b: its top-level object, or the
\* elements of its top-level array
PostingsIn(b) ==
    IF b.parse = "ok" /\ b.top \in {"dict", "list"}
    THEN {i \in 1..Len(b.items) : IsPosting(b.items[i])}
    ELSE {}

\* the first posting of the first block of scripts that holds one
FirstPosting(scripts) ==
    LET k == CHOOSE x \in 1..Len(scripts) :
                 /\ PostingsIn(scripts[x]) # {}
                 /\ \A y \in 1..(x - 1) : PostingsIn(scripts[y]) = {}
        i == CHOOSE x \in PostingsIn(scripts[k]) :
                 \A y \in PostingsIn(scripts[k]) : x <= y
    IN  scripts[k].items[i]

\* C25: if any JSON-LD block of the fetched page contains a JobPosting, as
\* its top-level object or as any element of a top-level array, whose
\* synthesized text exceeds the threshold, the JSON-LD step returns that
\* text, taken from the first such block, and the CSS and raw-body steps
\* do not run.
C25_AnyPostingReturned ==
    \A i \in 1..Len(tried) :
        (/\ tried[i].s = "jsonld"
         /\ \E k \in 1..Len(page.scripts) : PostingsIn(page.scripts[k]) # {})
        => /\ tried[i].hit
           /\ i = Len(tried)
           /\ result = Text("jsonld",
                            TxtLen(TxtStrip(LdClean(FirstPosting(page.scripts)))),
                            {"Job Title:", "Company:"})

\* the selectors of the page p whose element has more than 200 characters
Qualifying(p) == {k \in 1..NSelectors : p.sel[k].has /\ ElLen(p.sel[k]) > 200}

\* C26: the selectors are tried in their fixed order and the text returned
\* by the CSS step is that of the first selector whose element has more
\* than 200 characters of text; an element of 200 characters or fewer is
\* skipped, and the raw-body step runs only when no selector qualifies.
C26_FirstQualifyingSelector ==
    \A i \in 1..Len(tried) :
        /\ tried[i].s = "css" =>
            /\ tried[i].hit <=> Qualifying(page) # {}
            /\ tried[i].hit =>
                \E k \in Qualifying(page) :
                    /\ \A j \in Qualifying(page) : k <= j
                    /\ result = Text("css", ElLenSep(page.sel[k]), {})
        /\ tried[i].s = "body" =>
            /\ Qualifying(page) = {}
            /\ i > 1 /\ tried[i - 1] = Ran("css", FALSE)

\* the first selector's element has exactly 200 characters and is skipped;
\* the text of the sixth selector's element is returned
C26_Witness ==
    /\ pc = "done" /\ result.some /\ result.src = "css"
    /\ page.sel[1].has /\ ElLen(page.sel[1]) = 200
    /\ Qualifying(page) = {6}
    /\ result.len = ElLenSep(page.sel[6])

\* The scenario of C9 for the URL u: the identifier 12345678 is derived, the
\* first GET goes to the platform API, and its block of 300 characters comes
\* back as the labeled text.
ApiScenario(u) ==
    (url = u /\ pc # "start") =>
        /\ jid = FoundId(D8, 1)
        /\ pc # "api" => (gets # <<>> /\ gets[1] = "api")
        /\ (pc = "done" /\ api = ApiBlock300) =>
            /\ result.some
            /\ result.src = "api"
            /\ {"Job Title:", "Company:"} \subseteq result.labels

\* C9: for https://example.com/jobs/view/senior-engineer-12345678 the
\* platform API path is taken and returns the labeled text.
C9_ExampleUrlScenario == ApiScenario(ExampleJobUrl)

\* C9, amended: the same holds for the URL with the host www.linkedin.com.
C9_LinkedinUrlScenario == ApiScenario(LinkedinJobUrl)

C9_Witness ==
    /\ url = LinkedinJobUrl /\ pc = "done" /\ api = ApiBlock300
    /\ result.some /\ result.src = "api"

\* the description of the short page of the spec's scenario
ShortLen == 50

\* every text a strategy can take from the page p has at most ShortLen
\* characters
PageShort(p) ==
    /\ p.status = "ok"
    /\ \A i \in 1..Len(p.scripts) : \A k \in 1..Len(p.scripts[i].items) :
        LET o == p.scripts[i].items[k] IN
        (o.isdict /\ o.type = "JobPosting") => TxtLen(LdClean(o)) <= ShortLen
    /\ \A k \in 1..NSelectors : ElLenSep(p.sel[k]) <= ShortLen
    /\ ElLenSep(p.body) <= ShortLen

\* C10: when the fetched page yields only 50 characters of text,
\* scrape_job_url returns None, whatever the cached-page fallback does.
\* Stated for the page of the scenario: no structured data, and a body of
\* 50 characters that the raw body step has turned down.
C10_ShortPageGivesNone ==
    (/\ pc = "done"
     /\ PageShort(page)
     /\ page.scripts = <<>>
     /\ ElLenSep(page.body) = ShortLen
     /\ \E i \in 1..Len(tried) : tried[i] = Ran("body", FALSE))
    => ~result.some

\* C10, amended: it never returns the short text; it returns None unless the
\* cached-page fallback yields a body text of more than 200 characters, which
\* it then returns.
C10_ShortPageNeverShortText ==
    (pc = "done" /\ PageShort(page)) =>
        /\ result.some =>
            /\ result.src = "cache"
            /\ result.len = ElLenSep(cache.body)
            /\ result.len > CacheMinText
        /\ ~result.some =>
            ~(cache.status = "ok" /\ cache.body.has /\ ElLenSep(cache.body) > CacheMinText)

\* a page whose body holds 50 characters, and the cache's text returned
C10_Witness ==
    /\ pc = "done" /\ PageShort(page) /\ ElLenSep(page.body) = ShortLen
    /\ result.some

\* C18: there are no retries: during one call of scrape_job_url the platform
\* API endpoint, the page and the cache mirror are each requested with at
\* most one GET, so a call issues at most three GETs, and a GET that failed
\* is followed by the next strategy, never by the same GET again.
C18_NoRetries ==
    /\ Len(gets) <= 3
    /\ \A i, j \in 1..Len(gets) : i # j => gets[i] # gets[j]
    /\ (api # NoApi /\ api.status # "ok") => (pc # "api" /\ gets[1] = "api")
    /\ (page # NoPage /\ page.status # "ok") => pc \in {"cache", "done"}
    /\ (cache # NoCache /\ cache.status # "ok") => pc = "done"

\* three GETs, each of them failed, and the call is over
C18_Witness ==
    /\ pc = "done" /\ gets = <<"api", "page", "cache">>
    /\ api.status = "error" /\ page.status = "error" /\ cache.status = "error"

\* C20: the cached-page fallback is attempted only after every earlier
\* strategy produced no result, it is the last step before None is returned,
\* and it re-applies the chain's extraction steps to the page the cache
\* mirror serves: a JobPosting in that page's structured data is returned.
C20_CacheReappliesSteps ==
    /\ \A i \in 1..Len(tried) :
        tried[i].s = "cache" => \A j \in 1..(i - 1) : ~tried[j].hit
    /\ (pc = "done" /\ ~result.some /\ gets # <<>>) => Last(gets) = "cache"
    /\ (/\ pc = "done"
        /\ cache.status = "ok"
        /\ LdScan(cache.scripts).kind = "return")
       => /\ result.some
          /\ result.len = LdScan(cache.scripts).text.len

-----------------------------------------------------------------------------
(* Claims about _extract_linkedin_job_id, checked under SpecId *)

AllDigits(q) == \A k \in 1..Len(q) : q[k] \in Digits

\* id stands in s at a as a whole run of digits
MaxRunAt(s, a, id) ==
    /\ id # <<>> /\ AllDigits(id)
    /\ MatchAt(s, a, id)
    /\ a = 1 \/ s[a - 1] \notin Digits
    /\ a + Len(id) > Len(s) \/ s[a + Len(id)] \notin Digits

\* C8: every identifier _extract_linkedin_job_id returns is a maximal run of
\* at least 8 digits of the URL.
C8_IdAtLeast8Digits ==
    (pc = "id_done" /\ jid.found) =>
        /\ Len(jid.id) >= MinPathDigits
        /\ \E a \in 1..Len(url) : MaxRunAt(url, a, jid.id)

\* C8, amended: every identifier returned is a maximal run of digits of the
\* URL, found where the first matching pattern looks: after "jobs/view/" (at
\* once, or behind a "-" or "/") or after a "/" at the end of the path, and
\* then of at least 8 digits; or right after "currentJobId=", and then of
\* any length from one digit on.
C8_IdMaximalRun ==
    (pc = "id_done" /\ jid.found) =>
        \E a \in 1..Len(url) :
            /\ MaxRunAt(url, a, jid.id)
            /\ jid.pat = 1 =>
                /\ Len(jid.id) >= MinPathDigits
                /\ \E o \in 1..a : /\ MatchAt(url, o, L_jobsview)
                                   /\ o + Len(L_jobsview) <= a
                                   /\ url[a - 1] \in {"-", "/"}
            /\ jid.pat = 2 =>
                /\ MatchAt(url, a - Len(L_currentJobId), L_currentJobId)
                /\ IdPath(url) = <<>>
            /\ jid.pat = 3 =>
                /\ Len(jid.id) >= MinTrailDigits
                /\ url[a - 1] = "/"
                /\ IdPath(url) = <<>> /\ IdQuery(url) = <<>>

\* the query-parameter pattern gave an identifier of fewer than 8 digits
C8_Witness ==
    /\ pc = "id_done" /\ jid.found /\ jid.pat = 2
    /\ Len(jid.id) < MinPathDigits

\* the whole run of digits of s that starts at a
RunAt(s, a) == Sub(s, a, SkipDigits(s, a) - 1)

\* The captures of the path-segment pattern in s: "jobs/view/" stands
\* somewhere, and a run of at least 8 digits follows it at once or behind a
\* "-" or "/" further on in the same line.
PathCaptures(s) ==
    UNION { { RunAt(s, a) : a \in { x \in (o + Len(L_jobsview))..Len(s) :
                /\ s[x] \in Digits
                /\ \/ x = o + Len(L_jobsview)
                   \/ /\ s[x - 1] \in {"-", "/"}
                      /\ \A k \in (o + Len(L_jobsview))..(x - 2) : s[k] # NL
                /\ Len(RunAt(s, x)) >= 8 } }
            : o \in { y \in 1..Len(s) : MatchAt(s, y, L_jobsview) } }

\* the query-parameter pattern: digits right after "currentJobId="
QueryCaptures(s) ==
    { RunAt(s, o + Len(L_currentJobId)) :
        o \in { y \in 1..Len(s) : /\ MatchAt(s, y, L_currentJobId)
                                  /\ y + Len(L_currentJobId) <= Len(s)
                                  /\ s[y + Len(L_currentJobId)] \in Digits } }

\* what may follow the digits of the trailing pattern from position e on:
\* an optional "/", and then a "?" or the end of the string
TrailEnd(s, e) ==
    \/ AtEnd(s, e) \/ (e <= Len(s) /\ s[e] = "?")
    \/ (e <= Len(s) /\ s[e] = "/"
        /\ (AtEnd(s, e + 1) \/ (e + 1 <= Len(s) /\ s[e + 1] = "?")))

\* the trailing-numeric-segment pattern: "/" and a run of at least 8 digits
TrailCaptures(s) ==
    { RunAt(s, i + 1) :
        i \in { y \in 1..(Len(s) - 1) :
                 /\ s[y] = "/" /\ s[y + 1] \in Digits
                 /\ Len(RunAt(s, y + 1)) >= 8
                 /\ TrailEnd(s, y + 1 + Len(RunAt(s, y + 1))) } }

Captures(s, k) ==
    CASE k = 1 -> PathCaptures(s)
      [] k = 2 -> QueryCaptures(s)
      [] k = 3 -> TrailCaptures(s)

\* C24: the three patterns are tried in the order path-segment,
\* query-parameter, trailing-numeric-segment, and the capture of the first
\* that matches is returned; None is returned if and only if none of the
\* three matches.
C24_FirstPatternWins ==
    pc = "id_done" =>
        /\ jid.found <=> \E k \in 1..3 : Captures(url, k) # {}
        /\ jid.found =>
            /\ jid.id \in Captures(url, jid.pat)
            /\ \A k \in 1..(jid.pat - 1) : Captures(url, k) = {}

\* a URL that all three patterns match, with other digits after
\* "currentJobId=" than in the path: the path's digits are returned
C24_Witness ==
    /\ pc = "id_done" /\ jid.found /\ jid.pat = 1
    /\ Captures(url, 2) # {} /\ Captures(url, 3) # {}
    /\ jid.id \notin Captures(url, 2)

-----------------------------------------------------------------------------
(* competitor_intel: _scrape_website and the run of main that calls it *)

\* text[:6000]
SiteMaxText == 6000
\* the length of "Could not scrape website: "
SiteMsgLead == 26

L_https == <<"h", "t", "t", "p", "s", ":", "/", "/">>
L_httpPlain == <<"h", "t", "t", "p", ":", "/", "/">>

\* the URL the GET goes to
SiteUrl(u) == IF MatchAt(u, 1, L_http) THEN u ELSE L_https \o u

\* The outcome of the GET and of raise_for_status: "error" an exception of
\* requests.get, "bad" a response of status 4xx or 5xx; len the length of the
\* page's visible text, elen the length of the exception's message
SiteResp(status, len, elen) == [status |-> status, len |-> len, elen |-> elen]

SiteOutcomes ==
    {SiteResp("error", 0, 40), SiteResp("bad", 900, 60),
     SiteResp("ok", 0, 0), SiteResp("ok", 300, 0),
     SiteResp("ok", 6000, 0), SiteResp("ok", 6001, 0)}

\* requests.get raises for a URL without the scheme http:// or https://
SiteResponses(u) ==
    IF MatchAt(u, 1, L_https) \/ MatchAt(u, 1, L_httpPlain) THEN SiteOutcomes
    ELSE {r \in SiteOutcomes : r.status = "error"}

SiteText(kind, len) == [kind |-> kind, len |-> len]

\* the string _scrape_website returns: the page's text, or the message
\* with the failure when the GET on the URL of the response failed
_scrape_website(r) ==
    IF r.status = "ok"
    THEN SiteText("page", IF r.len > SiteMaxText THEN SiteMaxText ELSE r.len)
    ELSE SiteText("message", SiteMsgLead + r.elen)

U_notion == <<"n", "o", "t", "i", "o", "n", ".", "c", "o", "m">>
U_httpx == <<"h", "t", "t", "p", "x", ".", "i", "o">>

SiteUrls == {U_notion, L_https \o U_notion, L_httpPlain \o U_notion, U_httpx}

InitSite ==
    /\ company_url \in SiteUrls
    /\ your_company_url \in SiteUrls
    /\ spc = "start"
    /\ site_gets = <<>>
    /\ competitor_website_text = NoSiteText /\ your_website_text = NoSiteText
    /\ prompt = <<>>
    /\ ParserIdle /\ ScrapeIdle /\ RenderIdle /\ AuxIdle

\* Step 1: competitor_website_text = _scrape_website(company_url)
ScrapeCompetitor ==
    /\ spc = "start"
    /\ \E r \in SiteResponses(SiteUrl(company_url)) :
        /\ site_gets' = Append(site_gets, [url |-> SiteUrl(company_url), resp |-> r])
        /\ competitor_website_text' = _scrape_website(r)
    /\ spc' = "yours"
    /\ UNCHANGED <<company_url, your_company_url, your_website_text, prompt,
                   parserVars, scrapeVars, renderVars, auxVars>>

\* Step 2: your_website_text = _scrape_website(your_company_url)
ScrapeYours ==
    /\ spc = "yours"
    /\ \E r \in SiteResponses(SiteUrl(your_company_url)) :
        /\ site_gets' = Append(site_gets, [url |-> SiteUrl(your_company_url), resp |-> r])
        /\ your_website_text' = _scrape_website(r)
    /\ spc' = "prompt"
    /\ UNCHANGED <<company_url, your_company_url, competitor_website_text, prompt,
                   parserVars, scrapeVars, renderVars, auxVars>>

\* Step 6: both website texts go into the battle card prompt as they are
BuildPrompt ==
    /\ spc = "prompt"
    /\ prompt' = <<competitor_website_text, your_website_text>>
    /\ spc' = "done"
    /\ UNCHANGED <<company_url, your_company_url, site_gets,
                   competitor_website_text, your_website_text,
                   parserVars, scrapeVars, renderVars, auxVars>>

NextSite ==
    \/ ScrapeCompetitor
    \/ ScrapeYours
    \/ BuildPrompt

SpecSite == InitSite /\ [][NextSite]_vars

-----------------------------------------------------------------------------
(* Claims about the fetches, checked under SpecSite *)

\* the website texts main holds, in the order of the GETs that gave them
SiteTexts == <<competitor_website_text, your_website_text>>

\* C17: at every place where a page is fetched, a network error, a timeout
\* or a response that is not 2xx is reported as absence of content: the
\* strategy of scrape_job_url served by the failed GET yields no text, the
\* company-website scrape yields no text, and no text that stands for a
\* failed fetch is used as page text in the prompt.
C17_FailureIsAbsence ==
    /\ \A i \in 1..Len(tried) :
        /\ (tried[i].s = "api" /\ api.status # "ok") => ~tried[i].hit
        /\ (tried[i].s = "cache" /\ cache.status # "ok") => ~tried[i].hit
        /\ tried[i].s \in {"jsonld", "css", "body"} => page.status = "ok"
    /\ \A i \in 1..Len(site_gets) :
        site_gets[i].resp.status # "ok" => SiteTexts[i].len = 0
    /\ \A i \in 1..Len(prompt) :
        site_gets[i].resp.status # "ok" => prompt[i].len = 0

-----------------------------------------------------------------------------
(* render_resume_html: the template and the marker transform *)

K_name == <<"n", "a", "m", "e">>
K_contact_line == <<"c", "o", "n", "t", "a", "c", "t", "_", "l", "i", "n", "e">>
K_sections == <<"s", "e", "c", "t", "i", "o", "n", "s">>
K_title == <<"t", "i", "t", "l", "e">>
K_type == <<"t", "y", "p", "e">>
K_content == <<"c", "o", "n", "t", "e", "n", "t">>
K_entries == <<"e", "n", "t", "r", "i", "e", "s">>
K_left_primary == <<"l", "e", "f", "t", "_", "p", "r", "i", "m", "a", "r", "y">>
K_right_primary == <<"r", "i", "g", "h", "t", "_", "p", "r", "i", "m", "a", "r", "y">>
K_left_secondary == <<"l", "e", "f", "t", "_", "s", "e", "c", "o", "n", "d", "a", "r", "y">>
K_right_secondary == <<"r", "i", "g", "h", "t", "_", "s", "e", "c", "o", "n", "d", "a", "r", "y">>
K_subsections == <<"s", "u", "b", "s", "e", "c", "t", "i", "o", "n", "s">>
K_bullets == <<"b", "u", "l", "l", "e", "t", "s">>
K_lines == <<"l", "i", "n", "e", "s">>
K_match_notes == <<"m", "a", "t", "c", "h", "_", "n", "o", "t", "e", "s">>
K_text == <<"t", "e", "x", "t">>
K_experience == <<"e", "x", "p", "e", "r", "i", "e", "n", "c", "e">>
K_list == <<"l", "i", "s", "t">>

\* what a lookup of a missing key gives inside the template: it prints as the
\* empty string and iterates as the empty sequence
Undefined == MkVal("Undefined", 0, <<>>, <<>>, <<>>)

\* data.get(k, default)
Get(d, k, default) ==
    IF \E i \in 1..Len(d.keys) : d.keys[i] = k
    THEN d.items[CHOOSE i \in 1..Len(d.keys) : d.keys[i] = k]
    ELSE default

\* section.k inside the template
Attr(v, k) == IF IsDict(v) THEN Get(v, k, Undefined) ELSE Undefined

\* {{ v }} for a string or a missing value: the text as it is
Str(v) == v.s

RECURSIVE Flatten(_)
Flatten(parts) ==
    IF parts = <<>> THEN <<>> ELSE Head(parts) \o Flatten(Tail(parts))

\* Markup of the template: each tag is one symbol of the output, and none of
\* them holds a square bracket.
BulletsHtml(bs) ==
    Flatten([i \in 1..Len(bs.items) |-> <<"<li>">> \o Str(bs.items[i]) \o <<"</li>">>])

SubsectionHtml(sub) ==
    <<"<h4>">> \o Str(Attr(sub, K_title)) \o <<"</h4>">>
    \o BulletsHtml(Attr(sub, K_bullets))

\* the two-column entry with its nested sub-bullets and its own bullets
EntryHtml(e) ==
    <<"<entry>", "<l1>">> \o Str(Attr(e, K_left_primary))
    \o <<"<r1>">> \o Str(Attr(e, K_right_primary))
    \o <<"<l2>">> \o Str(Attr(e, K_left_secondary))
    \o <<"<r2>">> \o Str(Attr(e, K_right_secondary))
    \o Flatten([i \in 1..Len(Attr(e, K_subsections).items) |->
                    SubsectionHtml(Attr(e, K_subsections).items[i])])
    \o BulletsHtml(Attr(e, K_bullets))
    \o <<"</entry>">>

\* the block of one section: the dispatch on its kind tag
BlockHtml(sec) ==
    LET kind == Attr(sec, K_type)
        head == <<"<section>", "<h2>">> \o Str(Attr(sec, K_title)) \o <<"</h2>">>
    IN  IF kind = JStr(K_text)
        THEN head \o <<"<p>">> \o Str(Attr(sec, K_content)) \o <<"</p>", "</section>">>
        ELSE IF kind = JStr(K_experience)
        THEN head
             \o Flatten([i \in 1..Len(Attr(sec, K_entries).items) |->
                            EntryHtml(Attr(sec, K_entries).items[i])])
             \o <<"</section>">>
        ELSE IF kind = JStr(K_list)
        THEN head
             \o Flatten([i \in 1..Len(Attr(sec, K_lines).items) |->
                            <<"<line>">> \o Str(Attr(sec, K_lines).items[i])])
             \o <<"</section>">>
        ELSE <<"<section>", "</section>">>

\* template.render(name=..., contact_line=..., sections=...)
TemplateRender(name, contact_line, sections) ==
    <<"<h1>">> \o Str(name) \o <<"</h1>", "<contact>">> \o Str(contact_line)
    \o <<"</contact>">>
    \o Flatten([i \in 1..Len(sections.items) |-> BlockHtml(sections.items[i])])

\* str.replace(old, new): the occurrences from the left, none overlapping
RECURSIVE Replace(_, _, _)
Replace(s, old, new) ==
    IF s = <<>> THEN <<>>
    ELSE IF MatchAt(s, 1, old)
        THEN new \o Replace(SubSeq(s, Len(old) + 1, Len(s)), old, new)
    ELSE <<Head(s)>> \o Replace(Tail(s), old, new)

L_open == <<"[", "[">>
L_close == <<"]", "]">>
\* '<span class="changed">' and "</span>"
SPAN_OPEN == <<"<span>">>
SPAN_CLOSE == <<"</span>">>

\* the highlighted view made by replacing single brackets
MarkerTransformSingle(body, highlight_changes) ==
    IF highlight_changes
    THEN Replace(Replace(body, <<"[">>, SPAN_OPEN), <<"]">>, SPAN_CLOSE)
    ELSE Replace(Replace(body, L_open, <<>>), L_close, <<>>)

\* the two replacements on the composed body
MarkerTransform(body, highlight_changes) ==
    IF highlight_changes
    THEN Replace(Replace(body, L_open, SPAN_OPEN), L_close, SPAN_CLOSE)
    ELSE Replace(Replace(body, L_open, <<>>), L_close, <<>>)

\* the renderer reading the sections under the key "section"
render_resume_htmlWrongKey(d, highlight_changes) ==
    IF ~IsDict(d) THEN [raised |-> TRUE, html |-> <<>>]
    ELSE [raised |-> FALSE,
          html |-> MarkerTransform(
                      TemplateRender(Get(d, K_name, JStr(<<>>)),
                                     Get(d, K_contact_line, JStr(<<>>)),
                                     Get(d, <<"s", "e", "c", "t", "i", "o", "n">>,
                                         JList(<<>>))),
                      highlight_changes)]

\* render_resume_html(data, highlight_changes): raised where data.get fails
render_resume_html(d, highlight_changes) ==
    IF ~IsDict(d) THEN [raised |-> TRUE, html |-> <<>>]
    ELSE [raised |-> FALSE,
          html |-> MarkerTransform(
                      TemplateRender(Get(d, K_name, JStr(<<>>)),
                                     Get(d, K_contact_line, JStr(<<>>)),
                                     Get(d, K_sections, JList(<<>>))),
                      highlight_changes)]

-----------------------------------------------------------------------------
(* The tailoring run's inputs: the source resume and the model's responses *)

MaxSections == 2

\* sections as the model writes them
\* a paragraph with a marked part
S_text ==
    <<"{", "\"", "t", "i", "t", "l", "e", "\"", ":", "\"", "P", "\"", ",",
      "\"", "t", "y", "p", "e", "\"", ":", "\"", "t", "e", "x", "t", "\"",
      ",", "\"", "c", "o", "n", "t", "e", "n", "t", "\"", ":", "\"", "a",
      "[", "[", "b", "]", "]", "c", "\"", "}">>
\* a paragraph with single brackets and no marker
S_plain ==
    <<"{", "\"", "t", "i", "t", "l", "e", "\"", ":", "\"", "Q", "\"", ",",
      "\"", "t", "y", "p", "e", "\"", ":", "\"", "t", "e", "x", "t", "\"",
      ",", "\"", "c", "o", "n", "t", "e", "n", "t", "\"", ":", "\"", "a",
      "[", "b", "]", "\"", "}">>
\* an entry whose company column is marked, and nothing else
S_exp ==
    <<"{", "\"", "t", "i", "t", "l", "e", "\"", ":", "\"", "W", "\"", ",",
      "\"", "t", "y", "p", "e", "\"", ":", "\"", "e", "x", "p", "e", "r",
      "i", "e", "n", "c", "e", "\"", ",", "\"", "e", "n", "t", "r", "i",
      "e", "s", "\"", ":", "[", "{", "\"", "l", "e", "f", "t", "_", "p",
      "r", "i", "m", "a", "r", "y", "\"", ":", "\"", "[", "[", "X", "]",
      "]", "\"", ",", "\"", "r", "i", "g", "h", "t", "_", "p", "r", "i",
      "m", "a", "r", "y", "\"", ":", "\"", "L", "\"", ",", "\"", "l", "e",
      "f", "t", "_", "s", "e", "c", "o", "n", "d", "a", "r", "y", "\"",
      ":", "\"", "R", "\"", ",", "\"", "r", "i", "g", "h", "t", "_", "s",
      "e", "c", "o", "n", "d", "a", "r", "y", "\"", ":", "\"", "D", "\"",
      ",", "\"", "s", "u", "b", "s", "e", "c", "t", "i", "o", "n", "s",
      "\"", ":", "[", "{", "\"", "t", "i", "t", "l", "e", "\"", ":", "\"",
      "G", "\"", ",", "\"", "b", "u", "l", "l", "e", "t", "s", "\"", ":",
      "[", "\"", "c", "\"", "]", "}", "]", ",", "\"", "b", "u", "l", "l",
      "e", "t", "s", "\"", ":", "[", "\"", "e", "\"", "]", "}", "]", "}">>
\* an entry with a marked bullet and keys missing
S_bullets ==
    <<"{", "\"", "t", "i", "t", "l", "e", "\"", ":", "\"", "E", "\"", ",",
      "\"", "t", "y", "p", "e", "\"", ":", "\"", "e", "x", "p", "e", "r",
      "i", "e", "n", "c", "e", "\"", ",", "\"", "e", "n", "t", "r", "i",
      "e", "s", "\"", ":", "[", "{", "\"", "l", "e", "f", "t", "_", "p",
      "r", "i", "m", "a", "r", "y", "\"", ":", "\"", "X", "\"", ",", "\"",
      "r", "i", "g", "h", "t", "_", "p", "r", "i", "m", "a", "r", "y",
      "\"", ":", "\"", "L", "\"", ",", "\"", "s", "u", "b", "s", "e", "c",
      "t", "i", "o", "n", "s", "\"", ":", "[", "]", ",", "\"", "b", "u",
      "l", "l", "e", "t", "s", "\"", ":", "[", "\"", "e", "[", "[", "f",
      "]", "]", "\"", ",", "\"", "g", "\"", "]", "}", "]", "}">>
\* lines with a closing delimiter between two single brackets, and bold markup
S_list ==
    <<"{", "\"", "t", "i", "t", "l", "e", "\"", ":", "\"", "S", "\"", ",",
      "\"", "t", "y", "p", "e", "\"", ":", "\"", "l", "i", "s", "t", "\"",
      ",", "\"", "l", "i", "n", "e", "s", "\"", ":", "[", "\"", "[", "]",
      "]", "[", "\"", ",", "\"", "<", "b", ">", "I", "<", "/", "b", ">",
      "\"", "]", "}">>
\* a section of a kind the template does not know
S_unknown ==
    <<"{", "\"", "t", "i", "t", "l", "e", "\"", ":", "\"", "U", "\"", ",",
      "\"", "t", "y", "p", "e", "\"", ":", "\"", "t", "a", "b", "l", "e",
      "\"", ",", "\"", "c", "o", "n", "t", "e", "n", "t", "\"", ":", "\"",
      "g", "\"", "}">>
\* a section without title and content
S_missing ==
    <<"{", "\"", "t", "y", "p", "e", "\"", ":", "\"", "t", "e", "x", "t",
      "\"", "}">>

SectionTexts == {S_text, S_plain, S_exp, S_bullets, S_list, S_unknown, S_missing}

\* the sections of a response, joined by commas
RECURSIVE SectionListsUpTo(_)
SectionListsUpTo(n) ==
    IF n = 0 THEN {<<>>}
    ELSE LET T == SectionListsUpTo(n - 1) IN
         T \cup {(IF t = <<>> THEN t ELSE t \o <<",">>) \o p : t \in T, p \in SectionTexts}

D_head ==
    <<"{", "\"", "n", "a", "m", "e", "\"", ":", "\"", "A", "\"", ",", "\"",
      "c", "o", "n", "t", "a", "c", "t", "_", "l", "i", "n", "e", "\"",
      ":", "\"", "c", "|", "d", "\"", ",", "\"", "s", "e", "c", "t", "i",
      "o", "n", "s", "\"", ":", "[">>
D_bare ==
    <<"{", "\"", "s", "e", "c", "t", "i", "o", "n", "s", "\"", ":", "[">>
D_tail ==
    <<"]", ",", "\"", "m", "a", "t", "c", "h", "_", "n", "o", "t", "e",
      "s", "\"", ":", "{", "\"", "m", "a", "t", "c", "h", "_", "s", "c",
      "o", "r", "e", "\"", ":", "8", "5", "}", "}">>
D_end ==
    <<"]", "}">>

\* What the model can answer: a document with all its keys, a document with
\* keys missing, and answers that are no document at all
TailorResponses ==
    {D_head \o t \o D_tail : t \in SectionListsUpTo(MaxSections)}
    \cup {D_bare \o t \o D_end : t \in SectionListsUpTo(MaxSections)}
    \cup {P_list, P_num, P_talk, <<"{", "}">>}

\* the section headings of the source resume
SourceResumes ==
    {<<JStr(<<"P">>)>>, <<JStr(<<"P">>), JStr(<<"W">>)>>,
     <<JStr(<<"Q">>), JStr(<<"E">>), JStr(<<"S">>)>>}

-----------------------------------------------------------------------------
(* main: one job of the tailoring run, from the model call to the two views *)

\* bool(v) of Python
Falsy(v) ==
    \/ v.t = "NoneType"
    \/ v.t \in {"bool", "int"} /\ v.n = 0
    \/ v.t = "str" /\ v.s = <<>>
    \/ v.t = "list" /\ v.items = <<>>
    \/ v.t = "dict" /\ v.keys = <<>>

\* the dict without the key k
DictPop(d, k) ==
    LET keep == {i \in 1..Len(d.keys) : d.keys[i] # k}
        F[i \in 0..Len(d.keys)] ==
            IF i = 0 THEN <<>> ELSE IF i \in keep THEN Append(F[i - 1], i) ELSE F[i - 1]
        kept == F[Len(d.keys)]
    IN  JDict([j \in 1..Len(kept) |-> d.keys[kept[j]]],
              [j \in 1..Len(kept) |-> d.items[kept[j]]])

InitTailor ==
    /\ text \in TailorResponses
    /\ ppc = "start"
    /\ presult = EmptyDict
    /\ source \in SourceResumes
    /\ rpc = "start"
    /\ tailored = JNull
    /\ html_with_highlights = <<>> /\ html_clean = <<>>
    /\ ScrapeIdle /\ SiteIdle /\ AuxIdle

\* tailored = tailor_resume(...): the model's response goes through
\* parse_json_response; an empty result ends the job with an error message
Tailor ==
    /\ rpc = "start"
    /\ presult' = parse_json_response(text)
    /\ ppc' = "done"
    /\ tailored' = presult'
    /\ rpc' = IF Falsy(tailored') THEN "failed" ELSE "pop"
    /\ UNCHANGED <<text, source, html_with_highlights, html_clean, scrapeVars, siteVars, auxVars>>

\* match_notes = tailored.pop("match_notes", {}): only a dict has this pop
PopNotes ==
    /\ rpc = "pop"
    /\ IF IsDict(tailored)
         THEN tailored' = DictPop(tailored, K_match_notes) /\ rpc' = "highlights"
         ELSE tailored' = tailored /\ rpc' = "raised"
    /\ UNCHANGED <<source, html_with_highlights, html_clean, parserVars, scrapeVars, siteVars, auxVars>>

\* html_with_highlights = render_resume_html(tailored, highlight_changes=True)
RenderHighlights ==
    /\ rpc = "highlights"
    /\ LET r == render_resume_html(tailored, TRUE) IN
        IF r.raised THEN html_with_highlights' = html_with_highlights /\ rpc' = "raised"
        ELSE html_with_highlights' = r.html /\ rpc' = "clean"
    /\ UNCHANGED <<source, tailored, html_clean, parserVars, scrapeVars, siteVars, auxVars>>

\* html_clean = render_resume_html(tailored, highlight_changes=False)
RenderClean ==
    /\ rpc = "clean"
    /\ LET r == render_resume_html(tailored, FALSE) IN
        IF r.raised THEN html_clean' = html_clean /\ rpc' = "raised"
        ELSE html_clean' = r.html /\ rpc' = "done"
    /\ UNCHANGED <<source, tailored, html_with_highlights, parserVars, scrapeVars, siteVars, auxVars>>

NextTailor ==
    \/ Tailor
    \/ PopNotes
    \/ RenderHighlights
    \/ RenderClean

SpecTailor == InitTailor /\ [][NextTailor]_vars

-----------------------------------------------------------------------------
(* Claims about render_resume_html, checked under SpecTailor *)

\* the sections of the document d
Secs(d) == Get(d, K_sections, JList(<<>>)).items

\* the body the template composes for the document d
BodyOf(d) ==
    TemplateRender(Get(d, K_name, JStr(<<>>)), Get(d, K_contact_line, JStr(<<>>)),
                   Get(d, K_sections, JList(<<>>)))

HasMarker(x) == Contains(x, L_open) \/ Contains(x, L_close)

Bracket(c) == c \in {"[", "]"}

\* C11: the marker transform acts on the whole composed body.  With
\* highlight on every "[[" has become the opening tag and every "]]" the
\* closing tag, and a marked text without brackets of its own stands exactly
\* between the two tags; with highlight off the output holds no "[[" and no
\* "]]" anywhere, and the marked text is still there.
C11_MarkersTransformed ==
    rpc = "done" =>
        /\ ~HasMarker(html_with_highlights)
        /\ ~HasMarker(html_clean)
        /\ LET B == BodyOf(tailored) IN
           \A i, j \in 1..Len(B) :
               (/\ MatchAt(B, i, L_open) /\ MatchAt(B, j, L_close) /\ j >= i + 2
                /\ \A k \in (i + 2)..(j - 1) : ~Bracket(B[k]))
               => /\ Contains(html_with_highlights,
                              SPAN_OPEN \o Sub(B, i + 2, j - 1) \o SPAN_CLOSE)
                  /\ Contains(html_clean, Sub(B, i + 2, j - 1))

\* the strings of a list of strings
StrsOf(v) == {v.items[i].s : i \in 1..Len(v.items)}

Elems(v) == {v.items[i] : i \in 1..Len(v.items)}

\* the bullets of an entry, with the titles and bullets of its subsections
EntryBullets(e) ==
    StrsOf(Attr(e, K_bullets))
    \cup UNION {{Attr(sub, K_title).s} \cup StrsOf(Attr(sub, K_bullets)) :
                    sub \in Elems(Attr(e, K_subsections))}

\* the four columns of an entry
EntryColumns(e) ==
    {Attr(e, K_left_primary).s, Attr(e, K_right_primary).s,
     Attr(e, K_left_secondary).s, Attr(e, K_right_secondary).s}

\* name, contact_line, titles, content, lines and bullets
ListedTexts(d) ==
    {Get(d, K_name, JStr(<<>>)).s, Get(d, K_contact_line, JStr(<<>>)).s}
    \cup UNION {{Attr(sec, K_title).s, Attr(sec, K_content).s}
                \cup StrsOf(Attr(sec, K_lines))
                \cup UNION {EntryBullets(e) : e \in Elems(Attr(sec, K_entries))} :
                    sec \in {Secs(d)[i] : i \in 1..Len(Secs(d))}}

\* every text field of the document
AllTexts(d) ==
    ListedTexts(d)
    \cup UNION {UNION {EntryColumns(e) : e \in Elems(Attr(sec, K_entries))} :
                    sec \in {Secs(d)[i] : i \in 1..Len(Secs(d))}}

\* C12: a Document in which none of name, contact_line, content, bullets,
\* lines and titles holds "[[" or "]]" renders to the same string with
\* highlight on and with highlight off.
C12_ListedFieldsUnmarked ==
    (rpc = "done" /\ \A x \in ListedTexts(tailored) : ~HasMarker(x))
    => html_with_highlights = html_clean

\* C12, amended: the same for a Document in which no text field at all, the
\* four columns of the entries included, holds "[[" or "]]".
C12_AllFieldsUnmarked ==
    (rpc = "done" /\ \A x \in AllTexts(tailored) : ~HasMarker(x))
    => html_with_highlights = html_clean

\* a document with single brackets in a paragraph and no marker anywhere
C12_Witness ==
    /\ rpc = "done" /\ Secs(tailored) # <<>>
    /\ \A x \in AllTexts(tailored) : ~HasMarker(x)
    /\ \E x \in AllTexts(tailored) : \E k \in 1..Len(x) : Bracket(x[k])
    /\ html_with_highlights = html_clean

\* the positions where a block opens in the output h
BlockStarts(h) == {p \in 1..Len(h) : h[p] = "<section>"}

\* the k-th block of h: from where it opens to where the next one opens
NthBlock(h, k) ==
    LET P == BlockStarts(h)
        a == CHOOSE p \in P : Cardinality({q \in P : q <= p}) = k
        later == {q \in P : q > a}
        b == IF later = {} THEN Len(h) + 1
             ELSE CHOOSE q \in later : \A r \in later : q <= r
    IN  Sub(h, a, b - 1)

BlocksFollow(h, d, highlight_changes) ==
    /\ Cardinality(BlockStarts(h)) = Len(Secs(d))
    /\ \A k \in 1..Len(Secs(d)) :
        NthBlock(h, k) = MarkerTransform(BlockHtml(Secs(d)[k]), highlight_changes)

\* C13: in both views the output holds one block per section, and the k-th
\* block is the block of the k-th section, whatever the kinds of the
\* sections are.
C13_BlocksInSectionOrder ==
    rpc = "done" =>
        /\ BlocksFollow(html_with_highlights, tailored, TRUE)
        /\ BlocksFollow(html_clean, tailored, FALSE)

\* two sections of different kinds, rendered in their order
C13_Witness ==
    /\ rpc = "done" /\ Len(Secs(tailored)) = 2
    /\ Attr(Secs(tailored)[1], K_type) = JStr(K_experience)
    /\ Attr(Secs(tailored)[2], K_type) = JStr(K_list)
    /\ BlockHtml(Secs(tailored)[1]) # BlockHtml(Secs(tailored)[2])

\* C14: the Document that is rendered has the sections of the source
\* resume, as many and in the same order; a response of the model that has
\* other sections is not rendered.
C14_SectionsAsInSource ==
    rpc \in {"clean", "done"} =>
        [i \in 1..Len(Secs(tailored)) |-> Attr(Secs(tailored)[i], K_title)] = source

-----------------------------------------------------------------------------
(* render_resume_html applied to the values parse_json_response returns *)

InitRender ==
    /\ text \in TailorResponses
    /\ ppc = "start"
    /\ presult = EmptyDict
    /\ source = <<>>
    /\ rpc = "r_start"
    /\ tailored = JNull
    /\ html_with_highlights = <<>> /\ html_clean = <<>>
    /\ ScrapeIdle /\ SiteIdle /\ AuxIdle

\* the value the parser makes of the response
ParseForRender ==
    /\ rpc = "r_start"
    /\ presult' = parse_json_response(text)
    /\ ppc' = "done"
    /\ tailored' = presult'
    /\ rpc' = "r_parsed"
    /\ UNCHANGED <<text, source, html_with_highlights, html_clean, scrapeVars, siteVars, auxVars>>

\* a view is still to be made of the value
ViewMissing ==
    \/ rpc = "r_parsed"
    \/ rpc = "r_done" /\ (html_with_highlights = <<>> \/ html_clean = <<>>)

\* the renderer taking the sections out of the document it is given
RenderViewPop ==
    /\ ViewMissing
    /\ \E f \in BOOLEAN :
        LET r == render_resume_html(tailored, f) IN
        IF r.raised
        THEN rpc' = "r_raised" /\ UNCHANGED <<tailored, html_with_highlights, html_clean>>
        ELSE /\ rpc' = "r_done"
             /\ tailored' = DictPop(tailored, K_sections)
             /\ html_with_highlights' = IF f THEN r.html ELSE html_with_highlights
             /\ html_clean' = IF f THEN html_clean ELSE r.html
    /\ UNCHANGED <<source, parserVars, scrapeVars, siteVars, auxVars>>

\* one call of render_resume_html on that value, with either flag; the two
\* views are made one after the other, in either order
RenderView ==
    /\ ViewMissing
    /\ \E f \in BOOLEAN :
        LET r == render_resume_html(tailored, f) IN
        IF r.raised
        THEN rpc' = "r_raised" /\ UNCHANGED <<html_with_highlights, html_clean>>
        ELSE /\ rpc' = "r_done"
             /\ html_with_highlights' = IF f THEN r.html ELSE html_with_highlights
             /\ html_clean' = IF f THEN html_clean ELSE r.html
    /\ UNCHANGED <<source, tailored, parserVars, scrapeVars, siteVars, auxVars>>

NextRender ==
    \/ ParseForRender
    \/ RenderView

SpecRender == InitRender /\ [][NextRender]_vars

-----------------------------------------------------------------------------
(* Claims about render_resume_html, checked under SpecRender *)

KnownKinds == {JStr(K_text), JStr(K_experience), JStr(K_list)}

\* in the view h every section has its block, a section of an unknown kind
\* its empty block
DegradedBlocks(h, d, highlight_changes) ==
    /\ BlocksFollow(h, d, highlight_changes)
    /\ \A k \in 1..Len(Secs(d)) :
        Attr(Secs(d)[k], K_type) \notin KnownKinds
            => NthBlock(h, k) = <<"<section>", "</section>">>

\* C16: render_resume_html never fails on a value the parser hands to it: a
\* section of an unrecognised kind renders as an empty block, a missing key
\* as the empty string, and every other section is rendered all the same.
C16_NeverFailsOnDegraded ==
    /\ rpc # "r_raised"
    /\ (rpc = "r_done" /\ html_with_highlights # <<>>)
        => DegradedBlocks(html_with_highlights, tailored, TRUE)
    /\ (rpc = "r_done" /\ html_clean # <<>>)
        => DegradedBlocks(html_clean, tailored, FALSE)

\* C27: render_resume_html does not modify the Document it is given: the
\* Document is the same after each rendering as before it, and each view
\* made of one instance, highlighted first or clean first, is the view of
\* the Document as it stands after both.
C27_DocumentUnchanged ==
    /\ [][(rpc \in {"r_parsed", "r_done"}) => tailored' = tailored]_vars
    /\ [](rpc = "r_done" =>
            /\ html_with_highlights # <<>> =>
                html_with_highlights = render_resume_html(tailored, TRUE).html
            /\ html_clean # <<>> =>
                html_clean = render_resume_html(tailored, FALSE).html)

\* both views have been made of one Document that holds a marker and two
\* sections
C27_Witness ==
    /\ rpc = "r_done"
    /\ html_with_highlights # <<>> /\ html_clean # <<>>
    /\ html_with_highlights # html_clean
    /\ Len(Secs(tailored)) = 2

-----------------------------------------------------------------------------
(* ai_utils: the provider configuration and get_ai_client *)

L_anthropic == <<"a", "n", "t", "h", "r", "o", "p", "i", "c">>
L_openai == <<"o", "p", "e", "n", "a", "i">>
L_google == <<"g", "o", "o", "g", "l", "e">>
L_proxy == <<"p", "r", "o", "x", "y">>

PROVIDER_CONFIG ==
    [k \in {L_anthropic, L_openai, L_google, L_proxy} |->
        CASE k = L_anthropic ->
                [models |-> <<"claude-sonnet-4-20250514", "claude-haiku-4-5-20251001">>,
                 default |-> "claude-sonnet-4-20250514",
                 label |-> "Claude (Anthropic)"]
          [] k = L_openai ->
                [models |-> <<"gpt-4o", "gpt-4o-mini", "gpt-4.1">>,
                 default |-> "gpt-4o",
                 label |-> "GPT (OpenAI)"]
          [] k = L_google ->
                [models |-> <<"gemini-2.0-flash", "gemini-2.5-pro">>,
                 default |-> "gemini-2.0-flash",
                 label |-> "Gemini (Google)"]
          [] k = L_proxy ->
                [models |-> <<>>,
                 default |-> "claude-sonnet-4",
                 label |-> "LiteLLM / Proxy"]]

\* PROVIDER_CONFIG.get(k, default)
ConfigGet(k, default) ==
    IF k \in DOMAIN PROVIDER_CONFIG THEN PROVIDER_CONFIG[k] ELSE default

LowerSeq == <<"a", "b", "c", "d", "e", "f", "g", "h", "i", "j", "k", "l", "m",
              "n", "o", "p", "q", "r", "s", "t", "u", "v", "w", "x", "y", "z">>
UpperSeq == <<"A", "B", "C", "D", "E", "F", "G", "H", "I", "J", "K", "L", "M",
              "N", "O", "P", "Q", "R", "S", "T", "U", "V", "W", "X", "Y", "Z">>

\* str.lower()
ToLower(s) ==
    [i \in 1..Len(s) |->
        IF s[i] \in Upper
        THEN LowerSeq[CHOOSE j \in 1..Len(UpperSeq) : UpperSeq[j] = s[i]]
        ELSE s[i]]

\* a variable of the environment: set or not, and its value
EnvVar(v) == [set |-> TRUE, v |-> v]
Unset == [set |-> FALSE, v |-> <<>>]

\* os.environ.get(name, default); None is the empty sequence here, the
\* code only tests such a value for truth
Environ(e, name, default) == IF e[name].set THEN e[name].v ELSE default

\* a or b
Or(a, b) == IF a # <<>> THEN a ELSE b

_get_provider(e) == ToLower(Environ(e, "AI_PROVIDER", L_anthropic))

L_v1 == <<"/", "v", "1">>
L_googleBase == <<"h", "t", "t", "p", "s", ":", "/", "/", "g", "e", "n", "e", "r", "a", "t", "i", "v", "e", "l", "a", "n", "g", "u", "a", "g", "e", ".", "g", "o", "o", "g", "l", "e", "a", "p", "i", "s", ".", "c", "o", "m", "/", "v", "1", "b", "e", "t", "a", "/", "o", "p", "e", "n", "a", "i", "/">>

EndsWith(s, suffix) ==
    Len(s) >= Len(suffix) /\ MatchAt(s, Len(s) - Len(suffix) + 1, suffix)

\* str.rstrip(c)
RStrip(s, c) ==
    LET keep == {i \in 0..Len(s) : \A j \in (i + 1)..Len(s) : s[j] = c}
        n == CHOOSE i \in keep : \A j \in keep : i <= j
    IN  SubSeq(s, 1, n)

\* the base URL of the proxy made to end with "/v1"
ProxyBaseUrl(base_url) ==
    IF ~EndsWith(base_url, L_v1) THEN RStrip(base_url, "/") \o L_v1
    ELSE base_url

Stopped == [stopped |-> TRUE, provider_type |-> "", vendor |-> <<>>,
            api_key |-> <<>>, base_url |-> <<>>]
Client(provider_type, vendor, api_key, base_url) ==
    [stopped |-> FALSE, provider_type |-> provider_type, vendor |-> vendor,
     api_key |-> api_key, base_url |-> base_url]

\* get_ai_client(): vendor is the provider whose credentials and endpoint
\* the client is built with; st.stop() ends the run
get_ai_client(e) ==
    LET provider == _get_provider(e) IN
    IF provider = L_proxy THEN
        LET api_key == Or(Environ(e, "PROXY_API_KEY", <<>>),
                       Or(Environ(e, "OPENAI_API_KEY", <<>>),
                       Or(Environ(e, "ANTHROPIC_API_KEY", <<>>),
                          Environ(e, "ANTHROPIC_AUTH_TOKEN", <<>>))))
            base_url == Or(Environ(e, "PROXY_BASE_URL", <<>>),
                        Or(Environ(e, "OPENAI_BASE_URL", <<>>),
                           Environ(e, "ANTHROPIC_BASE_URL", <<>>)))
        IN  IF base_url = <<>> THEN Stopped
            ELSE Client("openai", L_proxy, api_key, ProxyBaseUrl(base_url))
    ELSE IF provider = L_anthropic THEN
        LET api_key == Or(Environ(e, "ANTHROPIC_API_KEY", <<>>),
                          Environ(e, "ANTHROPIC_AUTH_TOKEN", <<>>))
        IN  IF api_key = <<>> THEN Stopped
            ELSE Client("anthropic", L_anthropic, api_key, <<>>)
    ELSE IF provider = L_google THEN
        LET api_key == Environ(e, "GOOGLE_API_KEY", <<>>)
        IN  IF api_key = <<>> THEN Stopped
            ELSE Client("openai", L_google, api_key, L_googleBase)
    ELSE
        LET api_key == Environ(e, "OPENAI_API_KEY", <<>>)
        IN  IF api_key = <<>> THEN Stopped
            ELSE Client("openai", L_openai, api_key,
                        Environ(e, "OPENAI_BASE_URL", <<>>))

-----------------------------------------------------------------------------
(* The environments: AI_PROVIDER, the keys and the base URLs *)

ProviderValues ==
    {Unset, EnvVar(<<>>), EnvVar(L_anthropic), EnvVar(<<"O", "p", "e", "n", "A", "I">>),
     EnvVar(L_openai), EnvVar(L_google), EnvVar(L_proxy),
     EnvVar(<<"P", "R", "O", "X", "Y">>), EnvVar(<<"a", "z", "u", "r", "e">>)}

U_proxy == <<"h", "t", "t", "p", "s", ":", "/", "/", "p", ".", "i", "o">>
U_openaiBase == <<"h", "t", "t", "p", "s", ":", "/", "/", "o", ".", "i", "o", "/", "v", "1">>

BaseTails ==
    {<<>>, <<"/">>, <<"/", "/">>, L_v1, L_v1 \o <<"/">>, <<"/", "V", "1">>,
     <<"/", "a", "p", "i">>, <<"/", "a", "p", "i">> \o L_v1}

BaseUrls == {U_proxy \o t : t \in BaseTails}

KeyOf(name) == {Unset, EnvVar(<<name>>)}

Environments ==
    [AI_PROVIDER : ProviderValues,
     PROXY_API_KEY : KeyOf("kp"),
     OPENAI_API_KEY : KeyOf("ko"),
     ANTHROPIC_API_KEY : KeyOf("ka"),
     ANTHROPIC_AUTH_TOKEN : {Unset},
     GOOGLE_API_KEY : KeyOf("kg"),
     PROXY_BASE_URL : {Unset} \cup {EnvVar(u) : u \in BaseUrls},
     OPENAI_BASE_URL : {Unset, EnvVar(U_openaiBase \o <<"/">>)},
     ANTHROPIC_BASE_URL : {Unset}]

-----------------------------------------------------------------------------
(* main: the model selector and the client of one run *)

notClient == <<coreVars, searchVars, runVars>>

InitClient ==
    /\ env \in Environments
    /\ pconfig = NoConfig /\ selected_model = ""
    /\ client = NoClient
    /\ cpc = "ui"
    /\ ParserIdle /\ ScrapeIdle /\ SiteIdle /\ RenderIdle /\ SearchIdle
    /\ RunIdle

\* the model selector: the entry of the configured provider, or that of
\* "anthropic" when PROVIDER_CONFIG has no such key
SelectModel ==
    /\ cpc = "ui"
    /\ pconfig' = ConfigGet(_get_provider(env), PROVIDER_CONFIG[L_anthropic])
    /\ selected_model' = IF _get_provider(env) = L_proxy THEN pconfig'.default
                         ELSE pconfig'.models[1]
    /\ cpc' = "selected"
    /\ UNCHANGED <<env, client, notClient>>

\* "Tailor My Resume": client = get_ai_client()
GetClient ==
    /\ cpc = "selected"
    /\ client' = get_ai_client(env)
    /\ cpc' = IF client'.stopped THEN "stopped" ELSE "built"
    /\ UNCHANGED <<env, pconfig, selected_model, notClient>>

NextClient ==
    \/ SelectModel
    \/ GetClient

SpecClient == InitClient /\ [][NextClient]_vars

-----------------------------------------------------------------------------
(* Claims about the provider and the client, checked under SpecClient *)

\* the provider whose entry of PROVIDER_CONFIG is cfg
ProviderOf(cfg) == CHOOSE k \in DOMAIN PROVIDER_CONFIG : PROVIDER_CONFIG[k] = cfg

\* C28: for every value of AI_PROVIDER, recognised or not, the provider
\* whose model list and label the selector offers is the provider for which
\* get_ai_client builds the client.
C28_SelectorMatchesClient ==
    cpc = "built" => ProviderOf(pconfig) = client.vendor

\* C29: the base URL the proxy client is built with ends with exactly one
\* "/v1", whatever base URL is configured, and normalising it again leaves
\* it as it is.
C29_OneV1Suffix ==
    (cpc = "built" /\ client.vendor = L_proxy) =>
        /\ EndsWith(client.base_url, L_v1)
        /\ ~EndsWith(client.base_url, L_v1 \o L_v1)
        /\ ProxyBaseUrl(client.base_url) = client.base_url

-----------------------------------------------------------------------------
(* ai_utils: _web_search *)

MaxQueries == 3
MaxResults == 2

\* "No web results found."
NO_RESULTS == <<"No web results found.">>
\* "\n\n---\n\n"
SEPARATOR == <<NL, NL, "-", "-", "-", NL, NL>>

DigitStr == <<"1", "2", "3", "4">>

\* the j-th result the service gives for the q-th query
Hit(q, j) ==
    [title |-> <<"t", DigitStr[q], DigitStr[j]>>,
     href |-> <<"h", DigitStr[q], DigitStr[j]>>,
     body |-> <<"b", DigitStr[q], DigitStr[j]>>]

\* f"[{title}]({href})\n{body}"
Entry(r) == <<"[">> \o r.title \o <<"]", "(">> \o r.href \o <<")", NL>> \o r.body

\* sep.join(parts)
RECURSIVE Join(_, _)
Join(parts, sep) ==
    IF parts = <<>> THEN <<>>
    ELSE IF Len(parts) = 1 THEN parts[1]
    ELSE parts[1] \o sep \o Join(Tail(parts), sep)

\* what ddgs.text does for one query: it raises, or gives n results
Raises == [raises |-> TRUE, n |-> 0]
Gives(n) == [raises |-> FALSE, n |-> n]

\* The service: ok is FALSE when DDGS() raises; answers[q] is what
\* ddgs.text does for the q-th query
Services ==
    [ok : BOOLEAN,
     answers : UNION {[1..n -> {Raises} \cup {Gives(k) : k \in 0..MaxResults}]
                        : n \in 1..MaxQueries}]

Count(a) == a.n

\* the entries of the results of the q-th query
EntriesOf(svc, q) ==
    [j \in 1..Count(svc.answers[q]) |-> Entry(Hit(q, j))]

InitSearch ==
    /\ ddgs \in Services
    /\ queries = [q \in 1..Len(ddgs.answers) |-> <<"q", DigitStr[q]>>]
    /\ qi = 0
    /\ all_results = <<>>
    /\ web_results = <<>>
    /\ wpc = "start"
    /\ ParserIdle /\ ScrapeIdle /\ SiteIdle /\ RenderIdle /\ ClientIdle
    /\ RunIdle

notSearch == <<coreVars, clientVars, runVars>>

\* ddgs = DDGS(): an exception here ends the collection
NewSearch ==
    /\ wpc = "start"
    /\ IF ddgs.ok THEN wpc' = "loop" /\ qi' = 1
       ELSE wpc' = "join" /\ qi' = qi
    /\ UNCHANGED <<ddgs, queries, all_results, web_results, notSearch>>

\* one round of the loop that gives up at the first query that fails
SearchQueryBreak ==
    /\ wpc = "loop"
    /\ IF ddgs.answers[qi].raises
         THEN all_results' = all_results /\ wpc' = "join" /\ qi' = qi
         ELSE /\ all_results' = all_results \o EntriesOf(ddgs, qi)
              /\ qi' = qi + 1
              /\ wpc' = IF qi = Len(queries) THEN "join" ELSE "loop"
    /\ UNCHANGED <<ddgs, queries, web_results, notSearch>>

\* one round of the loop over the queries: the results of the query are
\* appended, an exception goes on with the next query
SearchQuery ==
    /\ wpc = "loop"
    /\ all_results' = IF ddgs.answers[qi].raises THEN all_results
                      ELSE all_results \o EntriesOf(ddgs, qi)
    /\ qi' = qi + 1
    /\ wpc' = IF qi = Len(queries) THEN "join" ELSE "loop"
    /\ UNCHANGED <<ddgs, queries, web_results, notSearch>>

\* the return: the entries joined, or the sentinel when there is none
ReturnResults ==
    /\ wpc = "join"
    /\ web_results' = IF all_results # <<>> THEN Join(all_results, SEPARATOR)
                      ELSE NO_RESULTS
    /\ wpc' = "done"
    /\ UNCHANGED <<ddgs, queries, qi, all_results, notSearch>>

NextSearch ==
    \/ NewSearch
    \/ SearchQuery
    \/ ReturnResults

SpecSearch == InitSearch /\ [][NextSearch]_vars

-----------------------------------------------------------------------------
(* Claims about _web_search, checked under SpecSearch *)

\* the pairs (query, result) the service answered, in query order then
\* result order
RECURSIVE Answered(_, _)
Answered(svc, q) ==
    IF q > Len(svc.answers) THEN <<>>
    ELSE [j \in 1..Count(svc.answers[q]) |-> <<q, j>>] \o Answered(svc, q + 1)

\* the place where the entry of the k-th answered pair starts in the string
\* returned: the entries are all of one length
EntryStart(k) == (k - 1) * (Len(Entry(Hit(1, 1))) + Len(SEPARATOR)) + 1

\* C30: _web_search never raises and isolates failures per query: the
\* results of every query that did not fail are in the string returned, in
\* query order then result order, whatever happened to the other queries;
\* the sentinel is returned if and only if no query produced any result.
C30_FailuresIsolated ==
    /\ wpc # "raised"
    /\ wpc = "done" =>
        LET got == IF ddgs.ok THEN Answered(ddgs, 1) ELSE <<>> IN
        /\ web_results = NO_RESULTS <=> got = <<>>
        /\ got # <<>> =>
            /\ Len(web_results) = EntryStart(Len(got) + 1) - 1 - Len(SEPARATOR)
            /\ \A k \in 1..Len(got) :
                MatchAt(web_results, EntryStart(k), Entry(Hit(got[k][1], got[k][2])))
        /\ ddgs.ok => \A q \in 1..Len(queries) :
            \A j \in 1..Count(ddgs.answers[q]) :
                Contains(web_results, Entry(Hit(q, j)))

\* the second of three queries failed; the results of the first and of the
\* third are both in the string returned
C30_Witness ==
    /\ wpc = "done" /\ ddgs.ok /\ Len(queries) = 3
    /\ ddgs.answers[1] = Gives(2) /\ ddgs.answers[2] = Raises
    /\ ddgs.answers[3] = Gives(1)
    /\ Contains(web_results, Entry(Hit(1, 2)))
    /\ Contains(web_results, Entry(Hit(3, 1)))

-----------------------------------------------------------------------------
(* generate_pdf *)

\* What the machine does for one call: chrome is whether _find_chrome finds
\* a browser, raised whether subprocess.run raises (a timeout), exit the
\* browser's exit status, exists and size the output file afterwards
PdfOutcome(chrome, raised, exit, exists, size) ==
    [chrome |-> chrome, raised |-> raised, exit |-> exit, exists |-> exists,
     size |-> size]

PdfOutcomes ==
    {PdfOutcome(FALSE, FALSE, 0, FALSE, 0),
     PdfOutcome(TRUE, TRUE, 0, FALSE, 0),
     PdfOutcome(TRUE, FALSE, 0, TRUE, 500),
     PdfOutcome(TRUE, FALSE, 0, FALSE, 0),
     PdfOutcome(TRUE, FALSE, 0, TRUE, 0),
     PdfOutcome(TRUE, FALSE, 1, FALSE, 0),
     PdfOutcome(TRUE, FALSE, 1, TRUE, 40)}

\* generate_pdf(resume_data) on a machine that does o: the number of bytes
\* returned and whether st.warning was called
generate_pdf(o) ==
    IF ~o.chrome THEN [bytes |-> 0, warned |-> TRUE]
    ELSE IF o.raised THEN [bytes |-> 0, warned |-> TRUE]
    ELSE IF o.exists /\ o.size > 0 THEN [bytes |-> o.size, warned |-> FALSE]
    ELSE [bytes |-> 0, warned |-> FALSE]

-----------------------------------------------------------------------------
(* main: the tailoring run over the job descriptions entered *)

MaxJobs == 2

\* the indexes of the job descriptions that were filled in, in input order
JobInputs ==
    {q \in UNION {[1..n -> 0..MaxJobs] : n \in 1..MaxJobs} :
        \A i \in 1..(Len(q) - 1) : q[i] < q[i + 1]}

A_company == <<"{", "\"", "c", "o", "m", "p", "a", "n", "y", "\"", ":", "\"", "A", "\"", "}">>

\* what the model answers to the three prompts
AnalysisResponses == {A_company, P_talk, P_list, P_str}
ResearchResponses == {P_obj, P_list}
RunTailorResponses ==
    {D_head \o S_text \o D_tail, D_bare \o D_end, P_talk, P_list, P_num}

\* the results an earlier run left in the session
EarlierRun == <<[job_num |-> MaxJobs + 2, jd_analysis |-> EmptyDict, company_intel |-> EmptyDict,
                 tailored |-> EmptyDict, match_notes |-> EmptyDict,
                 html_highlighted |-> <<>>, html_clean |-> <<>>, pdf_bytes |-> 0]>>

Step(job, step) == [job |-> job, step |-> step]

\* job_num = jd_input["index"] + 1
job_num == jd_inputs[idx] + 1

notRun == <<parserVars, scrapeVars, siteVars, clientVars, searchVars, rpc, source>>

InitRun ==
    /\ jd_inputs \in JobInputs
    /\ idx = 0
    /\ jd_analysis = JNull /\ company_intel = JNull /\ match_notes = JNull
    /\ pdf = NoPdf
    /\ results = <<>>
    /\ session \in {<<>>, EarlierRun}
    /\ steps = <<>> /\ errors = <<>>
    /\ runpc = "button"
    /\ ParserIdle /\ ScrapeIdle /\ SiteIdle /\ RenderIdle
    /\ ClientIdle /\ SearchIdle

\* "Tailor My Resume": results = [] and the loop begins
RunStart ==
    /\ runpc = "button"
    /\ results' = <<>>
    /\ idx' = 1
    /\ runpc' = "analyze"
    /\ UNCHANGED <<jd_inputs, jd_analysis, company_intel, match_notes, pdf,
                   session, steps, errors, tailored, html_with_highlights,
                   html_clean, notRun>>

\* jd_analysis = analyze_job_description(...); an empty value is reported
\* and the loop continues with the next job
RunAnalyze ==
    /\ runpc = "analyze"
    /\ \E resp \in AnalysisResponses :
        jd_analysis' = parse_json_response(resp)
    /\ steps' = Append(steps, Step(idx, "analyze"))
    /\ IF Falsy(jd_analysis')
         THEN /\ errors' = Append(errors, job_num)
              /\ idx' = idx + 1
              /\ runpc' = IF idx = Len(jd_inputs) THEN "finish" ELSE "analyze"
         ELSE /\ errors' = errors /\ idx' = idx /\ runpc' = "research"
    /\ UNCHANGED <<jd_inputs, company_intel, match_notes, pdf, results,
                   session, tailored, html_with_highlights, html_clean, notRun>>

\* the progress text reads jd_analysis.get('company', 'company'), which only
\* a dict has; then company_intel = research_company(...)
RunResearch ==
    /\ runpc = "research"
    /\ IF ~IsDict(jd_analysis)
         THEN runpc' = "crashed" /\ UNCHANGED <<company_intel, steps>>
         ELSE /\ \E resp \in ResearchResponses :
                    company_intel' = parse_json_response(resp)
              /\ steps' = Append(steps, Step(idx, "research"))
              /\ runpc' = "tailor"
    /\ UNCHANGED <<jd_inputs, idx, jd_analysis, match_notes, pdf, results,
                   session, errors, tailored, html_with_highlights,
                   html_clean, notRun>>

\* tailored = tailor_resume(...); an empty value is reported and the loop
\* continues with the next job
RunTailor ==
    /\ runpc = "tailor"
    /\ \E resp \in RunTailorResponses :
        tailored' = parse_json_response(resp)
    /\ steps' = Append(steps, Step(idx, "tailor"))
    /\ IF Falsy(tailored')
         THEN /\ errors' = Append(errors, job_num)
              /\ idx' = idx + 1
              /\ runpc' = IF idx = Len(jd_inputs) THEN "finish" ELSE "analyze"
         ELSE /\ errors' = errors /\ idx' = idx /\ runpc' = "highlights"
    /\ UNCHANGED <<jd_inputs, jd_analysis, company_intel, match_notes, pdf,
                   results, session, html_with_highlights, html_clean, notRun>>

\* match_notes = tailored.pop("match_notes", {}), which only a dict takes,
\* and the highlighted view
RunRenderHighlights ==
    /\ runpc = "highlights"
    /\ IF ~IsDict(tailored)
         THEN /\ runpc' = "crashed"
              /\ UNCHANGED <<match_notes, tailored, html_with_highlights, steps>>
         ELSE /\ match_notes' = Get(tailored, K_match_notes, EmptyDict)
              /\ tailored' = DictPop(tailored, K_match_notes)
              /\ html_with_highlights' = render_resume_html(tailored', TRUE).html
              /\ steps' = Append(steps, Step(idx, "highlights"))
              /\ runpc' = "clean"
    /\ UNCHANGED <<jd_inputs, idx, jd_analysis, company_intel, pdf, results,
                   session, errors, html_clean, notRun>>

\* the clean view
RunRenderClean ==
    /\ runpc = "clean"
    /\ html_clean' = render_resume_html(tailored, FALSE).html
    /\ steps' = Append(steps, Step(idx, "clean"))
    /\ runpc' = "pdf"
    /\ UNCHANGED <<jd_inputs, idx, jd_analysis, company_intel, match_notes,
                   pdf, results, session, errors, tailored,
                   html_with_highlights, notRun>>

\* pdf_bytes = generate_pdf(tailored) and results.append({...})
RunGeneratePdf ==
    /\ runpc = "pdf"
    /\ \E o \in PdfOutcomes :
        pdf' = [chrome |-> o.chrome, raised |-> o.raised, exit |-> o.exit,
                exists |-> o.exists, size |-> o.size,
                bytes |-> generate_pdf(o).bytes,
                warned |-> generate_pdf(o).warned, called |-> TRUE]
    /\ steps' = Append(steps, Step(idx, "pdf"))
    /\ results' = Append(results,
            [job_num |-> job_num, jd_analysis |-> jd_analysis,
             company_intel |-> company_intel, tailored |-> tailored,
             match_notes |-> match_notes,
             html_highlighted |-> html_with_highlights,
             html_clean |-> html_clean, pdf_bytes |-> pdf'.bytes])
    /\ idx' = idx + 1
    /\ runpc' = IF idx = Len(jd_inputs) THEN "finish" ELSE "analyze"
    /\ UNCHANGED <<jd_inputs, jd_analysis, company_intel, match_notes,
                   session, errors, tailored, html_with_highlights,
                   html_clean, notRun>>

\* st.session_state["results"] = results
RunFinish ==
    /\ runpc = "finish"
    /\ session' = results
    /\ runpc' = "finished"
    /\ UNCHANGED <<jd_inputs, idx, jd_analysis, company_intel, match_notes,
                   pdf, results, steps, errors, tailored,
                   html_with_highlights, html_clean, notRun>>

NextRun ==
    \/ RunStart
    \/ RunAnalyze
    \/ RunResearch
    \/ RunTailor
    \/ RunRenderHighlights
    \/ RunRenderClean
    \/ RunGeneratePdf
    \/ RunFinish

SpecRun == InitRun /\ [][NextRun]_vars

-----------------------------------------------------------------------------
(* Claims about the tailoring run, checked under SpecRun *)

\* the jobs of this run that reached the step st
Reached(st) == {steps[k].job : k \in {x \in 1..Len(steps) : steps[x].step = st}}

\* the job numbers of the records of a results list
JobNums(rs) == [k \in 1..Len(rs) |-> rs[k].job_num]

\* the members of the set S of jobs in ascending order, as job numbers
RECURSIVE Ascending(_)
Ascending(S) ==
    IF S = {} THEN <<>>
    ELSE LET j == CHOOSE x \in S : \A y \in S : x <= y
         IN  <<jd_inputs[j] + 1>> \o Ascending(S \ {j})

\* the run is over: the loop finished and the results were stored, or an
\* exception ended it
RunOver == runpc \in {"finished", "crashed"}

\* C21: no value the parser returns for the job analysis, the company
\* research or the tailored resume is fatal to the run: the loop over jobs
\* ends without an exception; a job whose analysis or tailoring is empty is
\* reported as failed and has no result; and every job is processed.
C21_NoOutcomeFatal ==
    /\ runpc # "crashed"
    /\ \A j \in 1..Len(jd_inputs) : j < idx =>
        LET reported == \E k \in 1..Len(errors) : errors[k] = jd_inputs[j] + 1
            stored == \E k \in 1..Len(results) : results[k].job_num = jd_inputs[j] + 1
        IN  /\ reported # stored
            /\ reported <=> j \notin Reached("pdf")
    /\ runpc = "finished" => Reached("analyze") = 1..Len(jd_inputs)

failed(p) == ~p.chrome \/ p.exit # 0 \/ ~p.exists \/ p.size = 0
succeeded(p) == p.chrome /\ ~p.raised /\ p.exit = 0 /\ p.exists /\ p.size > 0

\* C22: generate_pdf returns empty bytes and emits a warning when no
\* browser is found, when the browser exits with a non-zero status and when
\* the output file is missing or empty; it returns bytes only when the
\* conversion succeeded.
C22_PdfFailureWarns ==
    pdf.called =>
        /\ failed(pdf) => (pdf.bytes = 0 /\ pdf.warned)
        /\ pdf.bytes > 0 => succeeded(pdf)

StepRank(st) ==
    CASE st = "analyze" -> 1 [] st = "research" -> 2 [] st = "tailor" -> 3
      [] st = "highlights" -> 4 [] st = "clean" -> 5 [] st = "pdf" -> 6

\* C23: the run is strictly sequential: the jobs are taken in input order,
\* the steps of a job come in the order analyze, research, tailor, render
\* highlighted, render clean, generate PDF, no step of a job begins before
\* the job before it is over, and when the run is over the session holds
\* exactly the successful jobs of this run in ascending order, in place of
\* what an earlier run left there.
C23_SequentialRun ==
    /\ steps # <<>> => steps[1] = Step(1, "analyze")
    /\ \A k \in 1..(Len(steps) - 1) :
        \/ /\ steps[k + 1].job = steps[k].job
           /\ StepRank(steps[k + 1].step) = StepRank(steps[k].step) + 1
        \/ /\ steps[k + 1].job = steps[k].job + 1
           /\ steps[k + 1].step = "analyze"
    /\ RunOver => JobNums(session) = Ascending(Reached("pdf"))

=============================================================================
